---- MODULE Spec2Model ----
(***************************************************************************)
(* BOSA23095 (src/BOSA.py): the SCPI driver's transport layer.             *)
(*                                                                         *)
(* One driver object talks to one instrument over a LAN socket or a GPIB   *)
(* (VISA) resource.  The model follows the code statement by statement:    *)
(* a facade call (ask, ask_TRACE_REAL, ...) is a list of pending steps     *)
(* (todo), and each loop iteration of read / read_TRACE_REAL is one        *)
(* action, because the loops may never end.                                *)
(*                                                                         *)
(* Bytes arriving from the instrument are records [c, lo, hi]:             *)
(*   a text byte        [c |-> "a", lo |-> 0, hi |-> 1]                    *)
(*   a run of payload   [c |-> "bin", lo |-> i, hi |-> j]  (bytes i..j-1   *)
(*                      of the binary trace the instrument produced)       *)
(* so that a 19216-byte trace is one element, not 19216.                   *)
(***************************************************************************)
EXTENDS Integers, Sequences, FiniteSets, TLC

VARIABLES
    obj,                  \* "none" | "ready" | "failed": the BOSA23095 object
    interfaceType,        \* self.interfaceType, as given to the constructor
    instrument,           \* self.instrument: "none" | "open" | "eof" (peer closed)
    inbox,                \* bytes the instrument has produced, not yet received
    op,                   \* the facade call in progress, "idle" when none
    todo,                 \* the steps the call in progress has still to run
    log,                  \* the writes and reads of the call in progress, in order
    message,              \* read(): the accumulator
    data,                 \* read(): the chunk of the last receive
    response,             \* the caller's local holding what the read returned
    NumPoints,            \* read_TRACE_REAL: the point count asked for
    msgLength,            \* read_TRACE_REAL: bytes still to receive
    response_byte_array,  \* read_TRACE_REAL: the accumulated buffer
    lastReq,              \* size asked of the last underlying receive call
    lastGot,              \* what it gave: 1 bytes, 0 b'', -1 raised, -2 no call yet
    ret,                  \* outcome of the last finished call
    calls,                \* facade calls made so far
    lastEv,               \* history: the last write or read of the calls before it
    arg,                  \* history: the command given to that call
    args,                 \* history: the Python arguments of a setter or getter call
    stream0,              \* history: inbox when the read in progress began
    consumed,             \* history: bytes taken from inbox by that read
    diag,                 \* history: messages the call in progress has printed
    conn,                 \* history: the calls made on the object's handle
    faults,               \* history: the exceptions raised in the call in progress
    script,               \* the acquisition script running, "none" when none
    pc,                   \* the line of the script to run next
    laser_flag,           \* script: laser_flag
    firstMode,            \* script: what the first get_mode() returned
    frame,                \* checkvar: msg, slptime, checkf(*args) and the line to return to
    checkv,               \* checkvar: checkv
    polls,                \* checkvar: calls of checkf made by the call in progress
    trcount,              \* script: what the last get_trcount() returned
    points,               \* script: its variable NumPoints
    requested,            \* script: the count given to the last ask_TRACE_REAL
    svfile,               \* script: svfile
    pidx,                 \* script: position of the for loop over pol
    vidx,                 \* script: position of the for loop over voltages
    sent                  \* history: what the script has done to the devices, in order

driverVars == <<obj, interfaceType, instrument, inbox, op, todo, log, message, data,
                response, NumPoints, msgLength, response_byte_array, lastReq, lastGot,
                ret, calls, lastEv, arg, args, stream0, consumed, diag, conn, faults>>

scriptVars == <<script, pc, laser_flag, firstMode, frame, checkv, polls, trcount,
                points, requested, svfile, pidx, vidx, sent>>

vars == <<driverVars, scriptVars>>

callVars == <<calls, lastEv, arg, args, diag>>

----------------------------------------------------------------------------
(* Bounds of the model *)

MaxStream == 3     \* longest text stream the instrument produces in SpecIO
FineXfer == 32     \* transfers up to this size are cut at every byte
MaxCalls == 2      \* calls per behaviour in Spec, the constructor's included

(* Program constants *)

RecvBufSize == 115200   \* read(): recv(115200)
MaxTransfer == 19200    \* read_TRACE_REAL: recv(19200)
SocketTimeout == 30     \* connectLan: settimeout(30)
DefaultPort == 10000    \* __init__: portNo = 10000

----------------------------------------------------------------------------
(* Byte strings *)

Min(a, b) == IF a < b THEN a ELSE b

TxtByte(ch) == [c |-> ch, lo |-> 0, hi |-> 1]
BinRun(i, j) == [c |-> "bin", lo |-> i, hi |-> j]

RECURSIVE NBytes(_)
NBytes(s) == IF s = <<>> THEN 0 ELSE (Head(s).hi - Head(s).lo) + NBytes(Tail(s))

\* the first k bytes of s (all of s when it is shorter): s[:k]
RECURSIVE Take(_, _)
Take(s, k) ==
    IF k <= 0 \/ s = <<>> THEN <<>>
    ELSE LET h == Head(s)
             n == h.hi - h.lo
         IN  IF n <= k THEN <<h>> \o Take(Tail(s), k - n)
             ELSE <<[h EXCEPT !.hi = h.lo + k]>>

\* s without its first k bytes: s[k:]
RECURSIVE Drop(_, _)
Drop(s, k) ==
    IF k <= 0 \/ s = <<>> THEN s
    ELSE LET h == Head(s)
             n == h.hi - h.lo
         IN  IF n <= k THEN Drop(Tail(s), k - n)
             ELSE <<[h EXCEPT !.lo = h.lo + k]>> \o Tail(s)

\* Python slicing b[i:j] for 0 <= i <= j
Slice(b, i, j) == Take(Drop(b, i), j - i)

\* b''.join([a, b]): concatenation; adjacent payload runs that continue each
\* other are written as one run (the canonical form of the same bytes)
Join(a, b) ==
    IF a = <<>> THEN b
    ELSE IF b = <<>> THEN a
    ELSE LET x == a[Len(a)]
             y == Head(b)
         IN  IF x.c = "bin" /\ y.c = "bin" /\ x.hi = y.lo
             THEN SubSeq(a, 1, Len(a) - 1) \o <<BinRun(x.lo, y.hi)>> \o Tail(b)
             ELSE a \o b

----------------------------------------------------------------------------
(* Text: bytes.decode() is UTF-8.  The alphabet has three ASCII bytes and   *)
(* the two bytes C3 A9 of one two-byte character.                           *)

Ascii == {"a", "\r", "\n"}
TextBytes == Ascii \cup {"C3", "A9"}

\* chunk.decode(): [ok, text].  A lead byte without its continuation, or a
\* continuation byte alone, raises UnicodeDecodeError.  Payload bytes are
\* raw doubles: whether they happen to be valid text is not known, so the
\* caller chooses binOk; when they are, each decodes to the character "?".
RECURSIVE Decode(_, _)
Decode(chunk, binOk) ==
    IF chunk = <<>> THEN [ok |-> TRUE, text |-> <<>>]
    ELSE LET h == Head(chunk) IN
         IF h.c \in Ascii
         THEN LET r == Decode(Tail(chunk), binOk)
              IN  [ok |-> r.ok, text |-> <<h.c>> \o r.text]
         ELSE IF h.c = "C3" /\ Len(chunk) >= 2 /\ chunk[2].c = "A9"
         THEN LET r == Decode(Tail(Tail(chunk)), binOk)
              IN  [ok |-> r.ok, text |-> <<"U+E9">> \o r.text]
         ELSE IF h.c = "bin" /\ binOk
         THEN LET r == Decode(Tail(chunk), binOk)
              IN  [ok |-> r.ok, text |-> [i \in 1..(h.hi - h.lo) |-> "?"] \o r.text]
         ELSE [ok |-> FALSE, text |-> <<>>]

\* the VISA library's read() decodes with the resource's encoding, ASCII
\* unless changed (the driver never changes it): any other byte raises
DecodeVisa(chunk, binOk) ==
    LET r == Decode(chunk, binOk)
    IN  [ok |-> r.ok /\ \A i \in 1..Len(r.text) : r.text[i] # "U+E9", text |-> r.text]

\* "\n" in message
HasNewlineAtEnd(m) == m # <<>> /\ m[Len(m)] = "\n"
HasNewline(m) == \E i \in 1..Len(m) : m[i] = "\n"

\* interfaceType.lower()
Lower(s) ==
    IF s \in {"LAN", "Lan", "lan"} THEN "lan"
    ELSE IF s \in {"GPIB", "gpib"} THEN "gpib"
    ELSE "usb"

----------------------------------------------------------------------------
(* The channel *)

\* how a transfer of up to n available bytes may be cut by the network
ChunkSizes(n) ==
    IF n <= FineXfer THEN 1..n
    ELSE {n, n - 1, n \div 2}

\* socket.recv(req) with a timeout set: -1 stands for an exception (timeout,
\* reset), 0 for b'' and k > 0 for the next k bytes.  recv waits until the
\* socket is readable: data is there, or the peer has closed.
RecvSizes(req) ==
    {-1} \cup
    (IF inbox # <<>>
     THEN (IF req = 0 THEN {0} ELSE ChunkSizes(Min(req, NBytes(inbox))))
     ELSE IF instrument = "eof" THEN {0} ELSE {})

Step(kind) == [k |-> kind, cmd |-> "", n |-> 0]
W(command) == [k |-> "write", cmd |-> command, n |-> 0]

\* entries of log: a read function entered, a command handed to the channel
ReadEvent == [ev |-> "read", api |-> "", cmd |-> "", data |-> ""]
WriteEvent(api, command, bytes) == [ev |-> "write", api |-> api, cmd |-> command, data |-> bytes]
Kind == Lower(interfaceType)
HeadIs(kinds) == todo # <<>> /\ Head(todo).k \in kinds

NoRet == [status |-> "none", of |-> "", why |-> "", value |-> <<>>]

\* an exception leaves every frame of the call (no frame catches without
\* raising again): the call ends raised.  why: "io" for a fault of the
\* channel, "decode" for UnicodeDecodeError, "struct" for struct.error
RaiseSwallowed(why) ==
    /\ todo' = (IF todo = <<>> THEN <<>> ELSE Tail(todo))
    /\ UNCHANGED <<op, ret>>
    /\ faults' = Append(faults, why)
Raise(why) ==
    /\ todo' = <<>>
    /\ op' = "idle"
    /\ ret' = [status |-> "raised", of |-> op, why |-> why, value |-> <<>>]
    /\ faults' = Append(faults, why)

----------------------------------------------------------------------------
(* read(), src/BOSA.py 290-349 *)

objVars == <<obj, interfaceType, conn>>
traceVars == <<NumPoints, msgLength, response_byte_array>>

\* message = "": whatever an earlier read() left is not seen by this one
FreshMessageKept(old) == old
FreshMessage(old) == <<>>

\* read() is entered.  The variable message keeps what the last read() had
\* accumulated until the next read() begins.
ReadEnter ==
    /\ todo # <<>> /\ Head(todo).k = "read"
    /\ message' = FreshMessage(message)
    /\ data' = <<>>
    /\ lastGot' = -2
    /\ stream0' = inbox
    /\ consumed' = <<>>
    /\ log' = Append(log, ReadEvent)
    /\ todo' = <<Step("read.loop")>> \o Tail(todo)
    /\ UNCHANGED <<objVars, instrument, inbox, op, response, traceVars, lastReq,
                   ret, callVars, faults>>
    /\ UNCHANGED scriptVars

\* message += data.decode()
AccumulateOverwrite(m, text) == text
Accumulate(m, text) == m \o text

\* one iteration of the LAN loop: recv(115200), decode, append, test
ReadLan ==
    /\ todo # <<>> /\ Head(todo).k = "read.loop"
    /\ Lower(interfaceType) = "lan"
    /\ \E k \in RecvSizes(RecvBufSize), binOk \in BOOLEAN :
         /\ lastReq' = RecvBufSize
         /\ lastGot' = Min(k, 1)
         /\ IF k = -1
            THEN /\ Raise("io")
                 /\ UNCHANGED <<inbox, message, data, response, consumed>>
            ELSE LET chunk == Take(inbox, k)
                     d == Decode(chunk, binOk)
                 IN  /\ inbox' = Drop(inbox, k)
                     /\ data' = chunk
                     /\ consumed' = Join(consumed, chunk)
                     /\ IF ~d.ok
                        THEN Raise("decode") /\ UNCHANGED <<message, response>>
                        ELSE /\ message' = Accumulate(message, d.text)
                             /\ IF HasNewline(message')
                                THEN /\ todo' = Tail(todo)
                                     /\ response' = message'
                                ELSE UNCHANGED <<todo, response>>
                             /\ UNCHANGED <<op, ret, faults>>
    /\ UNCHANGED <<objVars, instrument, log, traceVars, callVars, stream0>>
    /\ UNCHANGED scriptVars

\* if(message != ''): break
GpibDoneAtNewline(m) == HasNewline(m)
GpibDone(m) == m # <<>>

\* one iteration of the GPIB loop: message = self.instrument.read(); the VISA
\* library returns a payload (any prefix of what is pending, '' included)
\* or raises
ReadGpib ==
    /\ todo # <<>> /\ Head(todo).k = "read.loop"
    /\ Lower(interfaceType) = "gpib"
    /\ \E k \in {-1} \cup (0..NBytes(inbox)), binOk \in BOOLEAN :
         /\ lastReq' = 0
         /\ lastGot' = Min(k, 1)
         /\ IF k = -1
            THEN /\ Raise("io")
                 /\ UNCHANGED <<inbox, message, data, response, consumed>>
            ELSE LET chunk == Take(inbox, k)
                     d == DecodeVisa(chunk, binOk)
                 IN  /\ inbox' = Drop(inbox, k)
                     /\ data' = chunk
                     /\ consumed' = Join(consumed, chunk)
                     /\ IF ~d.ok
                        THEN Raise("decode") /\ UNCHANGED <<message, response>>
                        ELSE /\ message' = d.text
                             /\ IF GpibDone(message')
                                THEN /\ todo' = Tail(todo)
                                     /\ response' = message'
                                ELSE UNCHANGED <<todo, response>>
                             /\ UNCHANGED <<op, ret, faults>>
    /\ UNCHANGED <<objVars, instrument, log, traceVars, callVars, stream0>>
    /\ UNCHANGED scriptVars

\* ask: return data
AskReturnStripped(d) ==
    IF Len(d) >= 2 /\ d[Len(d) - 1] = "\r" /\ d[Len(d)] = "\n"
    THEN SubSeq(d, 1, Len(d) - 2)
    ELSE d
AskReturn(d) == d

\* what the call in progress returns: nothing from the constructor, the
\* trace from the trace calls, and ask's value from ask and its wrappers
ReturnValue ==
    IF op = "__init__" THEN <<>>
    ELSE IF op \in {"read", "read_TRACE_REAL", "ask_TRACE_REAL", "ask_TRACE_ASCII"}
    THEN response
    ELSE AskReturn(response)

\* return <value>: the call in progress ends and hands its value back; a
\* constructor that returns has made the object
Return ==
    /\ todo # <<>> /\ Head(todo).k = "return"
    /\ todo' = <<>>
    /\ op' = "idle"
    /\ ret' = [status |-> "returned", of |-> op, why |-> "", value |-> ReturnValue]
    /\ obj' = IF op = "__init__" THEN "ready" ELSE obj
    /\ UNCHANGED <<interfaceType, conn, instrument, inbox, log, message, data,
                   response, traceVars, lastReq, lastGot, callVars, stream0,
                   consumed, faults>>
    /\ UNCHANGED scriptVars

\* the remote end closes the connection
PeerClose ==
    /\ instrument = "open"
    /\ instrument' = "eof"
    /\ UNCHANGED <<objVars, inbox, op, todo, log, message, data, response,
                   traceVars, lastReq, lastGot, ret, callVars, stream0, consumed,
                   faults>>
    /\ UNCHANGED scriptVars

----------------------------------------------------------------------------
(* read_TRACE_REAL(interfaceType, NumPoints), src/BOSA.py 388-447 *)

\* int(NumPoints*2*8)
MsgLength(n) == n * 2 * 8

\* the size asked of recv: msgLength below 19200, else 19200
RequestUncapped(m) == m
RequestFixed(m) == MaxTransfer
Request(m) == IF m < MaxTransfer THEN m ELSE MaxTransfer

\* a cell of Trace: the placeholder 0 the list is built with, or the 1-tuple
\* struct.unpack returns, holding the double whose 8 bytes are f64
Placeholder == [tuple |-> FALSE, f64 |-> <<>>]

\* struct.unpack('d', b): struct.error unless b has exactly 8 bytes
UnpackLenient(b) ==
    IF NBytes(b) = 8 THEN [ok |-> TRUE, cell |-> [tuple |-> TRUE, f64 |-> b]]
    ELSE [ok |-> TRUE, cell |-> Placeholder]
Unpack(b) ==
    IF NBytes(b) = 8 THEN [ok |-> TRUE, cell |-> [tuple |-> TRUE, f64 |-> b]]
    ELSE [ok |-> FALSE, cell |-> Placeholder]

\* response_byte_array[(x)*16:(x)*16+8] and [(x)*16+8:(x+1)*16]
PointX(buf, x) == Slice(buf, x * 16, x * 16 + 8)
PointYShifted(buf, x) == Slice(buf, x * 16, x * 16 + 8)
PointY(buf, x) == Slice(buf, x * 16 + 8, (x + 1) * 16)

\* the decoding loop over range(0, int(NumPoints))
DecodeOk(buf, n) ==
    \A x \in 0..(n - 1) : Unpack(PointX(buf, x)).ok /\ Unpack(PointY(buf, x)).ok
TraceOf(buf, n) ==
    [i \in 1..n |-> <<Unpack(PointX(buf, i - 1)).cell, Unpack(PointY(buf, i - 1)).cell>>]

\* response_byte_array = b''; msgLength = int(NumPoints*2*8)
TraceEnter ==
    /\ todo # <<>> /\ Head(todo).k = "read_TRACE_REAL"
    /\ NumPoints' = Head(todo).n
    /\ response_byte_array' = <<>>
    /\ msgLength' = MsgLength(Head(todo).n)
    /\ lastGot' = -2
    /\ stream0' = inbox
    /\ consumed' = <<>>
    /\ log' = Append(log, ReadEvent)
    /\ todo' = <<Step("trace.loop")>> \o Tail(todo)
    /\ UNCHANGED <<objVars, instrument, inbox, op, message, data, response,
                   lastReq, ret, callVars, faults>>
    /\ UNCHANGED scriptVars

\* one iteration of the LAN loop: recv, join, count down, test
TraceLan ==
    /\ todo # <<>> /\ Head(todo).k = "trace.loop"
    /\ Lower(interfaceType) = "lan"
    /\ \E k \in RecvSizes(Request(msgLength)) :
         /\ lastReq' = Request(msgLength)
         /\ lastGot' = Min(k, 1)
         /\ IF k = -1
            THEN /\ Raise("io")
                 /\ UNCHANGED <<inbox, traceVars, consumed>>
            ELSE LET Byte_data == Take(inbox, k)
                 IN  /\ inbox' = Drop(inbox, k)
                     /\ consumed' = Join(consumed, Byte_data)
                     /\ response_byte_array' = Join(response_byte_array, Byte_data)
                     /\ msgLength' = msgLength - k
                     /\ todo' = IF msgLength' = 0
                                THEN <<Step("trace.decode")>> \o Tail(todo)
                                ELSE todo
                     /\ UNCHANGED <<NumPoints, op, ret, faults>>
    /\ UNCHANGED <<objVars, instrument, log, message, data, response, callVars, stream0>>
    /\ UNCHANGED scriptVars

\* the GPIB loop: response_byte_array = read_bytes(msgLength, ...).  The
\* library returns the bytes it read (all msgLength of them, or fewer when
\* the transfer ended early) or raises; bytes never equal '', so the loop
\* always ends after this one call
TraceGpib ==
    /\ todo # <<>> /\ Head(todo).k = "trace.loop"
    /\ Lower(interfaceType) = "gpib"
    /\ \E k \in {-1, 0} \cup ChunkSizes(Min(msgLength, NBytes(inbox))) :
         /\ lastReq' = msgLength
         /\ lastGot' = Min(k, 1)
         /\ IF k = -1
            THEN /\ Raise("io")
                 /\ UNCHANGED <<inbox, traceVars, consumed>>
            ELSE LET Byte_data == Take(inbox, k)
                 IN  /\ inbox' = Drop(inbox, k)
                     /\ consumed' = Join(consumed, Byte_data)
                     /\ response_byte_array' = Byte_data
                     /\ todo' = <<Step("trace.decode")>> \o Tail(todo)
                     /\ UNCHANGED <<NumPoints, msgLength, op, ret, faults>>
    /\ UNCHANGED <<objVars, instrument, log, message, data, response, callVars, stream0>>
    /\ UNCHANGED scriptVars

\* Trace = [[0, 0] ...]; the unpack loop; return Trace
TraceDecode ==
    /\ todo # <<>> /\ Head(todo).k = "trace.decode"
    /\ IF DecodeOk(response_byte_array, NumPoints)
       THEN /\ response' = TraceOf(response_byte_array, NumPoints)
            /\ todo' = Tail(todo)
            /\ UNCHANGED <<op, ret, faults>>
       ELSE /\ Raise("struct")
            /\ UNCHANGED response
    /\ UNCHANGED <<objVars, instrument, inbox, log, message, data, traceVars,
                   lastReq, lastGot, callVars, stream0, consumed>>
    /\ UNCHANGED scriptVars

----------------------------------------------------------------------------
(* Connecting, src/BOSA.py 106-139 and 218-246 *)

\* a call made on the handle, or to obtain it
HandleCall(name, n, ok) == [call |-> name, n |-> n, ok |-> ok]

\* the calls of one connection attempt.  LAN, connectLan(): socket.socket(),
\* settimeout(30), connect((location, portNo)); GPIB: open_resource(location).
\* outcome: "medium" the socket or the resource cannot be opened, "refused"
\* the remote end refuses, "ok"
ConnectCallsRetry(kind, port, outcome) ==
    IF kind = "gpib"
    THEN IF outcome = "ok" THEN <<HandleCall("open_resource", 0, TRUE)>>
         ELSE <<HandleCall("open_resource", 0, FALSE), HandleCall("open_resource", 0, FALSE)>>
    ELSE IF outcome = "medium" THEN <<HandleCall("socket", 0, FALSE), HandleCall("socket", 0, FALSE)>>
    ELSE IF outcome = "ok"
    THEN <<HandleCall("socket", 0, TRUE), HandleCall("settimeout", SocketTimeout, TRUE),
           HandleCall("connect", port, TRUE)>>
    ELSE <<HandleCall("socket", 0, TRUE), HandleCall("settimeout", SocketTimeout, TRUE),
           HandleCall("connect", port, FALSE),
           HandleCall("socket", 0, TRUE), HandleCall("settimeout", SocketTimeout, TRUE),
           HandleCall("connect", port, FALSE)>>
ConnectCallsTimeoutLast(kind, port, outcome) ==
    IF kind = "gpib" THEN <<HandleCall("open_resource", 0, outcome = "ok")>>
    ELSE IF outcome = "medium" THEN <<HandleCall("socket", 0, FALSE)>>
    ELSE <<HandleCall("socket", 0, TRUE),
           HandleCall("connect", port, outcome = "ok"),
           HandleCall("settimeout", SocketTimeout, TRUE)>>
ConnectCalls(kind, port, outcome) ==
    IF kind = "gpib" THEN <<HandleCall("open_resource", 0, outcome = "ok")>>
    ELSE IF outcome = "medium" THEN <<HandleCall("socket", 0, FALSE)>>
    ELSE <<HandleCall("socket", 0, TRUE),
           HandleCall("settimeout", SocketTimeout, TRUE),
           HandleCall("connect", port, outcome = "ok")>>

\* self.instrument after the attempt: never assigned when the socket or the
\* resource could not be opened, an unconnected socket when connect raised
HandleAfter(kind, outcome) ==
    IF outcome = "ok" THEN "open"
    ELSE IF kind = "lan" /\ outcome = "refused" THEN "socket"
    ELSE "none"

----------------------------------------------------------------------------
(* SpecIO: one call of read() on every text stream of up to MaxStream       *)
(* bytes, or one call of read_TRACE_REAL on a payload, cut in every way.    *)

RECURSIVE SeqsUpTo(_, _)
SeqsUpTo(S, n) ==
    IF n = 0 THEN {<<>>}
    ELSE LET shorter == SeqsUpTo(S, n - 1)
         IN  shorter \cup {Append(s, x) : s \in shorter, x \in S}

Streams == {[i \in 1..Len(s) |-> TxtByte(s[i])] : s \in SeqsUpTo(TextBytes, MaxStream)}

\* point counts: none, few, the 30/30/20 scenario's 5, and the two around
\* the 19200-byte limit (1200 * 16 = 19200)
TraceCounts == {0, 1, 2, 5, 1200, 1201}

\* what the instrument delivers for n points: nothing, one byte short, exact,
\* or half a point more
PayloadLens(n) == {m \in {0, MsgLength(n) - 1, MsgLength(n), MsgLength(n) + 8} : m >= 0}

Payload(m) == IF m = 0 THEN <<>> ELSE <<BinRun(0, m)>>

\* no script is running
NoFrame == [msg |-> "", slptime |-> 0, cmd |-> "", to |-> 0]
NoScript ==
    /\ script = "none"
    /\ pc = 0
    /\ laser_flag = FALSE
    /\ firstMode = ""
    /\ frame = NoFrame
    /\ checkv = ""
    /\ polls = 0
    /\ trcount = ""
    /\ points = 0
    /\ requested = 0
    /\ svfile = ""
    /\ pidx = 0
    /\ vidx = 0
    /\ sent = <<>>

InitCommon ==
    /\ obj = "ready"
    /\ interfaceType \in {"LAN", "GPIB"}
    /\ instrument = "open"
    /\ log = <<>>
    /\ message = <<>>
    /\ data = <<>>
    /\ response = <<>>
    /\ NumPoints = 0
    /\ msgLength = 0
    /\ response_byte_array = <<>>
    /\ lastReq = 0
    /\ lastGot = -2
    /\ ret = NoRet
    /\ lastEv = ""
    /\ arg = ""
    /\ args = <<>>
    /\ stream0 = <<>>
    /\ consumed = <<>>
    /\ diag = 0
    /\ conn = ConnectCalls(Lower(interfaceType), DefaultPort, "ok")
    /\ faults = <<>>

InitRead ==
    /\ InitCommon
    /\ NoScript
    /\ calls = 1
    /\ inbox \in Streams
    /\ op = "read"
    /\ todo = <<Step("read"), Step("return")>>

InitTrace ==
    /\ InitCommon
    /\ NoScript
    /\ calls = 1
    /\ \E n \in TraceCounts :
         /\ inbox \in {Payload(m) : m \in PayloadLens(n)}
         /\ todo = <<[k |-> "read_TRACE_REAL", cmd |-> "", n |-> n], Step("return")>>
    /\ op = "read_TRACE_REAL"

InitIO == InitRead \/ InitTrace

NextIO ==
    \/ ReadEnter \/ ReadLan \/ ReadGpib
    \/ TraceEnter \/ TraceLan \/ TraceGpib \/ TraceDecode
    \/ Return \/ PeerClose

SpecIO == InitIO /\ [][NextIO]_vars

----------------------------------------------------------------------------
(* The facade: constructor, write, ask and the calls built on them *)

\* what the instrument may answer to a command: nothing or a line, and to
\* the trace query also 16 bytes of binary trace
Line == <<TxtByte("a"), TxtByte("\r"), TxtByte("\n")>>
Replies(command) == {<<>>, Line} \cup (IF command = "TRAC?" THEN {Payload(16)} ELSE {})

\* write() on LAN: self.instrument.sendall((command + "\r\n").encode());
\* SCPI commands are ASCII, one byte per character
LanSend(command) == command \o "\r\n"

\* write() on GPIB: self.instrument.write(command)
GpibSend(command) == command

\* write(command), src/BOSA.py 248-288: one send, or the exception raised again
Write ==
    /\ HeadIs({"write"})
    /\ Kind \in {"lan", "gpib"}
    /\ LET command == Head(todo).cmd IN
       \E ok \in BOOLEAN, reply \in Replies(command) :
          IF ~ok
          THEN /\ Raise("io")
               /\ UNCHANGED <<log, inbox>>
          ELSE /\ log' = Append(log,
                           IF Kind = "lan"
                           THEN WriteEvent("sendall", command, LanSend(command))
                           ELSE WriteEvent("visa.write", command, GpibSend(command)))
               /\ inbox' = IF instrument = "open" THEN inbox \o reply ELSE inbox
               /\ todo' = Tail(todo)
               /\ UNCHANGED <<op, ret, faults>>
    /\ UNCHANGED <<objVars, instrument, message, data, response, traceVars,
                   lastReq, lastGot, callVars, stream0, consumed>>
    /\ UNCHANGED scriptVars

\* a call begins: its steps and its name; the locals of the calls before it
\* are gone
Begin(name, command, steps) ==
    /\ op = "idle"
    /\ calls < MaxCalls
    /\ calls' = calls + 1
    /\ op' = name
    /\ todo' = steps
    /\ lastEv' = IF log = <<>> THEN lastEv ELSE log[Len(log)].ev
    /\ log' = <<>>
    /\ arg' = command
    /\ ret' = NoRet
    /\ data' = <<>> /\ response' = <<>>
    /\ NumPoints' = 0 /\ msgLength' = 0 /\ response_byte_array' = <<>>
    /\ lastReq' = 0 /\ lastGot' = -2
    /\ stream0' = <<>> /\ consumed' = <<>>
    /\ diag' = 0
    /\ faults' = <<>>
    /\ UNCHANGED scriptVars

\* __init__(interfaceType, location, portNo, IDN, Reset), src/BOSA.py 86-200
\* portNo as the caller gives it: NoPort stands for the argument left out
NoPort == 0
OtherPort == 5025
PortNo(port) == IF port = NoPort THEN DefaultPort ELSE port

\* the constructor's arguments, kept for the properties
CtorArgs(port, IDN, Reset) ==
    (IF port = NoPort THEN "" ELSE "portNo ")
    \o (IF IDN THEN "IDN " ELSE "") \o (IF Reset THEN "Reset" ELSE "")

InitSteps(port, IDN, Reset) ==
    <<[k |-> "connect", cmd |-> "", n |-> PortNo(port)]>>
    \o (IF IDN THEN <<W("*IDN?"), Step("read")>> ELSE <<>>)
    \o (IF Reset THEN <<W("*RST")>> ELSE <<>>)
    \o <<Step("return")>>

\* a new object: it has no instrument attribute yet
Construct(type, port, IDN, Reset) ==
    /\ obj = "none"
    /\ interfaceType' = type
    /\ instrument' = "none"
    /\ inbox' = <<>>
    /\ conn' = <<>>
    /\ IF Lower(type) \in {"lan", "gpib"}
       THEN Begin("__init__", CtorArgs(port, IDN, Reset), InitSteps(port, IDN, Reset))
       ELSE Begin("__init__", CtorArgs(port, IDN, Reset), <<>>)
    /\ args' = <<>>
    /\ UNCHANGED <<obj, message>>

\* raise Exception("interface type invalid"): no connection is attempted
ConstructInvalid ==
    /\ op = "__init__" /\ todo = <<>>
    /\ Raise("interface")
    /\ UNCHANGED <<objVars, instrument, inbox, log, message, data, response,
                   traceVars, lastReq, lastGot, callVars, stream0, consumed>>
    /\ UNCHANGED scriptVars

\* connectLan() or visa.ResourceManager().open_resource(location): connected,
\* or the exception raised again
Connect ==
    /\ HeadIs({"connect"})
    /\ \E outcome \in {"ok", "medium", "refused"} :
          /\ conn' = conn \o ConnectCalls(Kind, Head(todo).n, outcome)
          /\ instrument' = HandleAfter(Kind, outcome)
          /\ IF outcome = "ok"
             THEN /\ todo' = Tail(todo)
                  /\ UNCHANGED <<op, ret, faults>>
             ELSE Raise("connect")
    /\ UNCHANGED <<obj, interfaceType, inbox, log, message, data, response,
                   traceVars, lastReq, lastGot, callVars, stream0, consumed>>
    /\ UNCHANGED scriptVars

\* ask(command), src/BOSA.py 351-361
AskSteps(command) == <<W(command), Step("read"), Step("return")>>

\* ask_TRACE_REAL(interfaceType, NumPoints), src/BOSA.py 363-373
AskTraceRealSteps(n) ==
    <<W("TRAC?"), [k |-> "read_TRACE_REAL", cmd |-> "", n |-> n], Step("return")>>

\* ask_TRACE_ASCII(), src/BOSA.py 375-386
AskTraceAsciiSteps ==
    <<W("FORM ASCII"), W("TRAC?"), Step("read_TRACE_ASCII"), Step("return")>>

Commands == {"*OPC?", "FORM REAL"}
ProtoCounts == {0, 1}

Idle ==
    /\ obj = "ready"
    /\ args' = <<>>
    /\ UNCHANGED <<objVars, instrument, inbox, message>>

CallAsk(command) == Idle /\ Begin("ask", command, AskSteps(command))

CallAskTraceReal(n) == Idle /\ Begin("ask_TRACE_REAL", "TRAC?", AskTraceRealSteps(n))

CallAskTraceAscii == Idle /\ Begin("ask_TRACE_ASCII", "TRAC?", AskTraceAsciiSteps)

\* get_mode(), src/BOSA.py 489-490
CallGetMode == Idle /\ Begin("get_mode", "INST:STAT:MODE ?", AskSteps("INST:STAT:MODE ?"))

\* mode.upper()
Upper(str) ==
    IF str \in {"ca", "CA", "Ca"} THEN "CA"
    ELSE IF str \in {"main", "MAIN"} THEN "MAIN"
    ELSE IF str \in {"lan", "Lan"} THEN "LAN"
    ELSE IF str = "gpib" THEN "GPIB"
    ELSE IF str = "on" THEN "ON"
    ELSE IF str = "off" THEN "OFF"
    ELSE IF str = "True" THEN "TRUE"
    ELSE IF str = "False" THEN "FALSE"
    ELSE IF str = "None" THEN "NONE"
    ELSE IF str = "maybe" THEN "MAYBE"
    ELSE IF str = "real" THEN "REAL"
    ELSE IF str = "xml" THEN "XML"
    ELSE IF str = "dBm" THEN "DBM"
    ELSE IF str = "run" THEN "RUN"
    ELSE IF str = "m1" THEN "M1"
    ELSE IF str = "x" THEN "X"
    ELSE IF str = "nm" THEN "NM"
    ELSE str

modesWithoutCA == {"MAIN", "BOSA", "TLS"}
modes == {"MAIN", "BOSA", "TLS", "CA"}

\* set_mode(mode), src/BOSA.py 492-496: ask for a valid mode, else a printed
\* message and None
SetModeSteps(mode) ==
    IF Upper(mode) \in modes
    THEN AskSteps("INST:STAT:MODE " \o Upper(mode))
    ELSE <<Step("print"), Step("return")>>

\* print(<message>): a diagnostic is emitted and the call goes on
PrintDiag ==
    /\ HeadIs({"print"})
    /\ diag' = diag + 1
    /\ todo' = Tail(todo)
    /\ UNCHANGED <<objVars, instrument, inbox, op, log, message, data, response,
                   traceVars, lastReq, lastGot, ret, calls, lastEv, arg, args,
                   stream0, consumed, faults>>
    /\ UNCHANGED scriptVars

CallSetMode(mode) ==
    Idle /\ Begin("set_mode", "INST:STAT:MODE " \o Upper(mode), SetModeSteps(mode))

\* an exception raised by a statement of the method itself: while its
\* arguments are examined, or its command or its diagnostic is put together
RaiseStep ==
    /\ HeadIs({"raise"})
    /\ Raise(Head(todo).cmd)
    /\ UNCHANGED <<objVars, instrument, inbox, log, message, data, response,
                   traceVars, lastReq, lastGot, callVars, stream0, consumed>>
    /\ UNCHANGED scriptVars

\* get_identificationNumber() and is_operationComplete(), src/BOSA.py 475-485:
\* both begin with "if self.available:".  __init__ assigns interfaceType,
\* location, portNo, activeTrace, instrument and modes, and the class has no
\* attribute available, so reading it raises AttributeError
HasAvailable == FALSE

IdentSteps(command) ==
    IF HasAvailable THEN AskSteps(command)
    ELSE <<[k |-> "raise", cmd |-> "attribute", n |-> 0]>>

CallGetIdentificationNumber ==
    Idle /\ Begin("get_identificationNumber", "*IDN?", IdentSteps("*IDN?"))

CallIsOperationComplete ==
    Idle /\ Begin("is_operationComplete", "*OPC?", IdentSteps("*OPC?"))

\* the modes tried
ModeArgs == {"ca", "MAIN", "XY"}

\* read_TRACE_ASCII(), src/BOSA.py 449-471: read_ascii_values is a method of
\* the VISA resource; a socket has none, so on LAN the attribute lookup raises
\* AttributeError, which the handler raises again.  On GPIB the library reads
\* one message and converts it, or raises; the values are kept as their text.
ReadTraceAscii ==
    /\ HeadIs({"read_TRACE_ASCII"})
    /\ log' = Append(log, ReadEvent)
    /\ stream0' = inbox
    /\ IF Kind = "lan"
       THEN /\ Raise("attribute")
            /\ consumed' = <<>>
            /\ UNCHANGED <<inbox, response>>
       ELSE \E k \in {-1} \cup (1..NBytes(inbox)) :
               LET d == DecodeVisa(Take(inbox, Min(k, NBytes(inbox))), FALSE) IN
               IF k = -1 \/ ~d.ok
               THEN /\ Raise("io")
                    /\ consumed' = <<>>
                    /\ UNCHANGED <<inbox, response>>
               ELSE /\ inbox' = Drop(inbox, k)
                    /\ consumed' = Take(inbox, k)
                    /\ response' = d.text
                    /\ todo' = Tail(todo)
                    /\ UNCHANGED <<op, ret, faults>>
    /\ UNCHANGED <<objVars, instrument, message, data, traceVars, lastReq,
                   lastGot, callVars>>
    /\ UNCHANGED scriptVars

\* __del__(), src/BOSA.py 202-216.  The handler of the try block evaluates
\* e.message for its log line; the exceptions of Python 3 have no attribute
\* message, so the handler raises AttributeError itself and logs nothing
HasMessage == FALSE

DelSteps == <<Step("close"), Step("return")>>

CallDel ==
    /\ interfaceType # ""
    /\ Begin("__del__", "", DelSteps)
    /\ obj' = IF obj = "ready" THEN "deleted" ELSE obj
    /\ args' = <<>>
    /\ UNCHANGED <<interfaceType, conn, instrument, inbox, message>>

\* the try block of __del__: self.instrument.close() for LAN and GPIB, nothing
\* for another interface type.  Reading self.instrument raises AttributeError
\* when it was never assigned; close() closes the handle (closing a closed
\* handle again succeeds) or raises.  Either exception enters the handler.
Close ==
    /\ HeadIs({"close"})
    /\ \E ok \in BOOLEAN :
         LET noHandle == instrument = "none"
             closing == Upper(interfaceType) \in {"LAN", "GPIB"}
             raised == closing /\ (noHandle \/ ~ok)
         IN  /\ (~closing \/ noHandle) => ok
             /\ conn' = IF closing /\ ~noHandle
                        THEN Append(conn, HandleCall("close", 0, ok))
                        ELSE conn
             /\ instrument' = IF closing /\ ~noHandle /\ ok THEN "closed" ELSE instrument
             /\ IF raised /\ ~HasMessage
                THEN Raise("attribute") /\ UNCHANGED diag
                ELSE /\ diag' = IF raised THEN diag + 1 ELSE diag
                     /\ todo' = Tail(todo)
                     /\ UNCHANGED <<op, ret, faults>>
    /\ UNCHANGED <<obj, interfaceType, inbox, log, message, data, response,
                   traceVars, lastReq, lastGot, calls, lastEv, arg, args,
                   stream0, consumed>>
    /\ UNCHANGED scriptVars

Init ==
    /\ NoScript
    /\ obj = "none"
    /\ interfaceType = ""
    /\ instrument = "none"
    /\ inbox = <<>>
    /\ op = "idle"
    /\ todo = <<>>
    /\ log = <<>>
    /\ message = <<>>
    /\ data = <<>>
    /\ response = <<>>
    /\ NumPoints = 0
    /\ msgLength = 0
    /\ response_byte_array = <<>>
    /\ lastReq = 0
    /\ lastGot = -2
    /\ ret = NoRet
    /\ calls = 0
    /\ lastEv = ""
    /\ arg = ""
    /\ args = <<>>
    /\ stream0 = <<>>
    /\ consumed = <<>>
    /\ diag = 0
    /\ conn = <<>>
    /\ faults = <<>>

Next ==
    \/ \E type \in {"LAN", "lan", "GPIB", "USB"}, port \in {NoPort, OtherPort},
          IDN \in BOOLEAN, Reset \in BOOLEAN :
          Construct(type, port, IDN, Reset)
    \/ ConstructInvalid
    \/ Connect
    \/ Write
    \/ ReadEnter \/ ReadLan \/ ReadGpib
    \/ TraceEnter \/ TraceLan \/ TraceGpib \/ TraceDecode
    \/ ReadTraceAscii
    \/ Return
    \/ PeerClose
    \/ \E command \in Commands : CallAsk(command)
    \/ \E n \in ProtoCounts : CallAskTraceReal(n)
    \/ CallAskTraceAscii
    \/ CallGetMode
    \/ PrintDiag
    \/ CallDel
    \/ Close
    \/ \E mode \in ModeArgs : CallSetMode(mode)
    \/ CallGetIdentificationNumber
    \/ CallIsOperationComplete
    \/ RaiseStep

Spec == Init /\ [][Next]_vars

----------------------------------------------------------------------------
(* The setters and getters that validate their arguments.  A Python value  *)
(* is a record of its type and its str().                                   *)

PyInt(str) == [ty |-> "int", s |-> str]
PyStr(str) == [ty |-> "str", s |-> str]
PyTrue == [ty |-> "bool", s |-> "True"]
PyFalse == [ty |-> "bool", s |-> "False"]
PyNone == [ty |-> "none", s |-> "None"]

StrOf(v) == v.s
IsStr(v) == v.ty = "str"
IsBool(v) == v.ty = "bool"

\* a == b: a bool equals the int of its value, other types only themselves
Num(v) == IF v.s \in {"1", "True"} THEN 1 ELSE IF v.s \in {"0", "False"} THEN 0 ELSE 2
PyEq(a, b) ==
    IF a.ty \in {"int", "bool"} /\ b.ty \in {"int", "bool"}
    THEN IF Num(a) = 2 \/ Num(b) = 2 THEN a.s = b.s ELSE Num(a) = Num(b)
    ELSE a = b
PyIn(v, tuple) == \E t \in tuple : PyEq(v, t)

\* how a setter ends: after diag diagnostics it asks cmd, returns None, or
\* raises cmd
Ask(command) == [diag |-> 0, end |-> "ask", cmd |-> command]
Done == [diag |-> 0, end |-> "none", cmd |-> ""]
Throw(why) == [diag |-> 0, end |-> "raise", cmd |-> why]

\* print("Value for ... instead it is " + x) and then the statements after
\* it: str + x raises TypeError unless x is a str
Report(x, rest) ==
    IF IsStr(x) THEN [rest EXCEPT !.diag = 1] ELSE Throw("TypeError:diagnostic")

\* if flag == True: name = yes / elif flag == False: name = no / else: the
\* name is left unbound
Unbound == "<unbound>"
Flag(flag, yes, no) ==
    IF PyEq(flag, PyTrue) THEN yes ELSE IF PyEq(flag, PyFalse) THEN no ELSE Unbound

\* self.ask(pre + name + post), name possibly unbound
AskWith(pre, name, post) ==
    IF name = Unbound THEN Throw("UnboundLocalError:command") ELSE Ask(pre \o name \o post)

OnOffTokens == {"1", "0", "ON", "OFF"}

\* the body shared by set_wavSingle, set_wavSweepCal, set_avgState,
\* set_avgCorr, set_laser, set_sweep, set_inpMueller and set_mrkState
OnOffSetter(scpi, on) ==
    IF Upper(StrOf(on)) \in OnOffTokens THEN Ask(scpi \o " " \o Upper(StrOf(on)))
    ELSE IF IsBool(on) THEN Ask(scpi \o (IF PyEq(on, PyTrue) THEN " 1" ELSE " 0"))
    ELSE Report(on, Done)

set_wavSingle(on) == OnOffSetter("SENS:WAV:SINGLE", on)
set_wavSweepCal(on) == OnOffSetter("SENS:WAV:SWEEPCAL", on)
set_avgState(on) == OnOffSetter("SENS:AVER:STAT", on)
set_avgCorr(on) == OnOffSetter("SENS:AVER:CORR", on)
set_laser(on) == OnOffSetter("SENS:SWITCH", on)
set_sweep(on) == OnOffSetter("SENS:SWEEP", on)
set_inpMueller(on) == OnOffSetter("INP:POL:MUELL", on)
set_mrkState(on) == OnOffSetter("CALC:MARK:STAT", on)

\* set_TPow: the token is appended without a space
set_TPow(on) ==
    IF Upper(StrOf(on)) \in OnOffTokens THEN Ask("CALC:TPOW" \o Upper(StrOf(on)))
    ELSE IF IsBool(on) THEN Ask(IF PyEq(on, PyTrue) THEN "CALC:TPOW 1" ELSE "CALC:TPOW 0")
    ELSE Report(on, Done)

\* set_OSNR: only ON and OFF are tokens; a bool sends the CALC:TPOW command
set_OSNR(on) ==
    IF Upper(StrOf(on)) \in {"ON", "OFF"} THEN Ask("CALC:OSNR:STAT " \o Upper(StrOf(on)))
    ELSE IF IsBool(on) THEN Ask(IF PyEq(on, PyTrue) THEN "CALC:TPOW ON" ELSE "CALC:TPOW OFF")
    ELSE Report(on, Done)

\* get_state(meas_state): meas_state.upper() needs a str
get_state(meas_state) ==
    IF ~IsStr(meas_state) THEN Throw("AttributeError:argument")
    ELSE IF Upper(StrOf(meas_state)) \in {"HOLD", "RUN"}
    THEN Ask("INST:STAT:" \o StrOf(meas_state) \o " ?")
    ELSE Report(meas_state, Done)

\* set_state(meas_state, on): on in (1, 0, "1", "0", True, False)
set_state(meas_state, on) ==
    IF ~IsStr(meas_state) THEN Throw("AttributeError:argument")
    ELSE IF /\ Upper(StrOf(meas_state)) \in {"HOLD", "RUN"}
            /\ PyIn(on, {PyInt("1"), PyInt("0"), PyStr("1"), PyStr("0"), PyTrue, PyFalse})
    THEN Ask("INST:STAT:" \o StrOf(meas_state) \o " "
             \o (IF PyEq(on, PyTrue) THEN "1" ELSE IF PyEq(on, PyFalse) THEN "0" ELSE StrOf(on)))
    ELSE Report(on, Done)

\* set_normY(on, window, scale): a window that is no boolean is reported and
\* the call returns; a scale that is no boolean is reported and the call
\* goes on with scal unbound
set_normY(on, window, scale) ==
    LET wind == Flag(window, ":WIND", "")
        scal == Flag(scale, ":SCAL", "")
        body ==
            IF Upper(StrOf(on)) \in OnOffTokens
            THEN AskWith("DISP" \o wind \o ":TRAC:Y", scal, ":NORM " \o Upper(StrOf(on)))
            ELSE IF IsBool(on)
            THEN AskWith("DISP" \o wind \o ":TRAC:Y", scal,
                         IF PyEq(on, PyTrue) THEN ":NORM 1" ELSE ":NORM 0")
            ELSE Report(on, Done)
    IN  IF wind = Unbound THEN Report(window, Done)
        ELSE IF scal = Unbound THEN Report(scale, body)
        ELSE body

\* set_mrkDfun(on, state): the bool branch adds an int to a str
set_mrkDfun(on, state) ==
    LET stat == Flag(state, ":STAT ", " ") IN
    IF stat = Unbound THEN Report(state, Done)
    ELSE IF Upper(StrOf(on)) \in OnOffTokens
    THEN Ask("CALC:MARK:FUNC:DELT" \o stat \o Upper(StrOf(on)))
    ELSE IF IsBool(on) THEN Throw("TypeError:command")
    ELSE Report(on, Done)

\* the body shared by set_maxHold and set_minHold: the diagnostic for state
\* names stat, which is unbound there
HoldSetter(scpi, on, state) ==
    LET stat == Flag(state, ":STAT ", " ") IN
    IF stat = Unbound THEN Throw("UnboundLocalError:diagnostic")
    ELSE IF Upper(StrOf(on)) \in OnOffTokens THEN Ask(scpi \o stat \o Upper(StrOf(on)))
    ELSE IF IsBool(on) THEN Throw("TypeError:command")
    ELSE Report(on, Done)

set_maxHold(on, state) == HoldSetter("CALC:MAX", on, state)
set_minHold(on, state) == HoldSetter("CALC:MIN", on, state)

\* set_trace(trace, on, window): its diagnostics print str(...) of the value
set_trace(trace, on, window) ==
    LET wind == Flag(window, ":WIND", "")
        name == Upper(StrOf(trace))
    IN  IF wind = Unbound THEN Report(window, Done)
        ELSE IF name \notin {"A", "B", "M1", "M2", "M3", "M4"} THEN [Done EXCEPT !.diag = 1]
        ELSE IF Upper(StrOf(on)) \in {"ON", "OFF"}
        THEN Ask("DISP" \o wind \o ":TRAC:STAT " \o name \o " " \o Upper(StrOf(on)))
        ELSE IF PyIn(on, {PyTrue, PyInt("1"), PyStr("1")})
        THEN Ask("DISP" \o wind \o ":TRAC:STAT " \o name \o " 1")
        ELSE IF PyIn(on, {PyFalse, PyInt("0"), PyStr("0")})
        THEN Ask("DISP" \o wind \o ":TRAC:STAT " \o name \o " 0")
        ELSE [Done EXCEPT !.diag = 1]

\* a set_format that leaves the instrument in ASCII whatever is asked
set_formatAsciiOnly(format, length, dataFlag) ==
    LET dat == Flag(dataFlag, ":DATA", "") IN
    IF dat = Unbound THEN Report(dataFlag, Done) ELSE Ask("FORM" \o dat \o " ASCII")

\* set_format(format, length, data): a format that is neither ASCII nor REAL
\* is reported, and then the statement after the if chain asks "FORM" + dat
set_format(format, length, dataFlag) ==
    LET dat == Flag(dataFlag, ":DATA", "") IN
    IF dat = Unbound THEN Report(dataFlag, Done)
    ELSE IF Upper(StrOf(format)) = "ASCII"
    THEN IF ~PyEq(length, PyInt("-1")) THEN Throw("TypeError:command")
         ELSE Ask("FORM" \o dat \o " ASCII")
    ELSE IF Upper(StrOf(format)) = "REAL" THEN Ask("FORM" \o dat \o " REAL")
    ELSE Report(format, Ask("FORM" \o dat))

\* set_bottomY(value, magnitude, window, scale): a magnitude outside DBM, MW
\* and "" is left out of the command; value is added to a str
set_bottomY(value, magnitude, window, scale) ==
    LET wind == Flag(window, ":WIND", "")
        scal == Flag(scale, ":SCAL", "")
        unit == IF magnitude \in {PyNone, PyFalse, PyInt("0"), PyStr("")}
                THEN "" ELSE Upper(StrOf(magnitude))
        body ==
            IF scal = Unbound THEN Throw("UnboundLocalError:command")
            ELSE IF ~IsStr(value) THEN Throw("TypeError:command")
            ELSE IF unit \in {"DBM", "MW", ""}
            THEN Ask("DISP" \o wind \o ":TRAC:Y" \o scal \o ":BOTT " \o StrOf(value) \o unit)
            ELSE Ask("DISP" \o wind \o ":TRAC:Y" \o scal \o ":BOTT " \o StrOf(value))
    IN  IF wind = Unbound THEN Report(window, Done)
        ELSE IF scal = Unbound THEN Report(scale, body)
        ELSE body

\* str(units or "").upper(): a false value gives ""
UnitOf(units) ==
    IF units \in {PyNone, PyFalse, PyInt("0"), PyStr("")} THEN "" ELSE Upper(StrOf(units))

\* the body shared by set_wavSmooth, set_wavSpan and the first set_TPowLow:
\* value is added to a str
UnitSetter(scpi, value, units) ==
    IF UnitOf(units) \in {"NM", "PM", "GHZ", "THZ", ""}
    THEN IF IsStr(value) THEN Ask(scpi \o " " \o StrOf(value) \o " " \o UnitOf(units))
         ELSE Throw("TypeError:command")
    ELSE Report(units, Done)

\* set_wavSmooth sends the SENS:WAV:CENT command
set_wavSmooth(value, units) == UnitSetter("SENS:WAV:CENT", value, units)
get_wavSmooth == Ask("SENS:WAV:SMOOTH?")
set_wavSpan(value, units) == UnitSetter("SENS:WAV:SPAN", value, units)
get_wavSpan == Ask("SENS:WAV:SPAN?")
get_OSNR == Ask("CALC:OSNR:STAT?")

\* str(band).upper().replace(" ", "")
NoSpaces(str) == IF str = "C L" THEN "CL" ELSE str

set_graphBand(band, window) ==
    LET wind == Flag(window, ":WIND", "") IN
    IF wind = Unbound THEN Report(window, Done)
    ELSE IF NoSpaces(Upper(StrOf(band))) \in {"C", "L", "CL", "C+L"}
    THEN Ask("DISP" \o wind \o ":GRAPHICSEL C+L")
    ELSE IF Upper(StrOf(band)) = "O" THEN Ask("DISP" \o wind \o ":GRAPHICSEL O")
    ELSE [Done EXCEPT !.diag = 1]

get_graphBand(window) ==
    LET wind == Flag(window, ":WIND", "") IN
    IF wind = Unbound THEN Report(window, Done)
    ELSE Ask("DISP" \o wind \o ":GRAPHSEL ?")

\* The names defined twice in the class body.  A def statement binds its name
\* when it is executed, so after the class body has run each name denotes the
\* last of its definitions, given here in source order.
Bound(definitions) == definitions[Len(definitions)]

\* set_TPowLow(value, units), then set_TPowLow(): the second takes no
\* argument, so a call with two raises TypeError
set_TPowLowDefs(value, units) ==
    <<UnitSetter("CALC:TPOW:IRAN:LOW", value, units), Throw("TypeError:arguments")>>
set_TPowLow(value, units) == Bound(set_TPowLowDefs(value, units))

\* get_trace(window = False), then get_trace(data = False)
get_traceDefs(flag) ==
    <<IF Flag(flag, ":WIND", "") = Unbound THEN Report(flag, Done)
      ELSE Ask("DISP" \o Flag(flag, ":WIND", "") \o ":TRAC:STAT?"),
      IF Flag(flag, ":DATA?", "?") = Unbound THEN Report(flag, Done)
      ELSE Ask("TRAC" \o Flag(flag, ":DATA?", "?"))>>
get_trace(flag) == Bound(get_traceDefs(flag))

\* get_mrkState(), twice
get_mrkStateDefs == <<Ask("CALC:MARK:STAT?"), Ask("CALC:MARK:MOD?")>>
get_mrkState == Bound(get_mrkStateDefs)

\* get_maxHold(state), twice; the diagnostic of both names the unbound stat
get_maxHoldDefs(state) ==
    <<IF Flag(state, ":STAT ", " ") = Unbound THEN Throw("UnboundLocalError:diagnostic")
      ELSE Ask("CALC:MAX" \o Flag(state, ":STAT ", " ")),
      IF Flag(state, ":STAT ", " ") = Unbound THEN Throw("UnboundLocalError:diagnostic")
      ELSE Ask("CALC:MIN" \o Flag(state, ":STAT ", " "))>>
get_maxHold(state) == Bound(get_maxHoldDefs(state))

\* the steps of a setter that ends as plan says
SetterSteps(plan) ==
    (IF plan.diag = 1 THEN <<Step("print")>> ELSE <<>>)
    \o (IF plan.end = "ask" THEN AskSteps(plan.cmd)
        ELSE IF plan.end = "none" THEN <<Step("return")>>
        ELSE <<[k |-> "raise", cmd |-> plan.cmd, n |-> 0]>>)

CallSetter(name, a, plan) ==
    /\ obj = "ready"
    /\ Begin(name, IF plan.end = "ask" THEN plan.cmd ELSE "", SetterSteps(plan))
    /\ args' = a
    /\ UNCHANGED <<objVars, instrument, inbox, message>>

\* the arguments tried
OnVals == {PyInt("1"), PyInt("0"), PyInt("5"), PyStr("ON"), PyStr("OFF"), PyStr("on"),
           PyStr("1"), PyStr("maybe"), PyTrue, PyFalse, PyNone}
FlagVals == {PyFalse, PyTrue, PyStr("x"), PyNone}
StateVals == {PyStr("RUN"), PyStr("run"), PyStr("STOP"), PyInt("5")}
TraceVals == {PyStr("A"), PyStr("m1"), PyStr("Z"), PyInt("5")}
FormatVals == {PyStr("ASCII"), PyStr("real"), PyStr("xml"), PyInt("5"), PyNone}
LengthVals == {PyInt("-1"), PyInt("5")}
ValueVals == {PyStr("3"), PyInt("5")}
MagnitudeVals == {PyStr("dBm"), PyStr("MW"), PyStr(""), PyNone, PyStr("V"), PyInt("5")}

CallOnOffSetter ==
    \E on \in OnVals :
       \/ CallSetter("set_wavSingle", <<on>>, set_wavSingle(on))
       \/ CallSetter("set_wavSweepCal", <<on>>, set_wavSweepCal(on))
       \/ CallSetter("set_avgState", <<on>>, set_avgState(on))
       \/ CallSetter("set_avgCorr", <<on>>, set_avgCorr(on))
       \/ CallSetter("set_laser", <<on>>, set_laser(on))
       \/ CallSetter("set_sweep", <<on>>, set_sweep(on))
       \/ CallSetter("set_inpMueller", <<on>>, set_inpMueller(on))
       \/ CallSetter("set_mrkState", <<on>>, set_mrkState(on))
       \/ CallSetter("set_TPow", <<on>>, set_TPow(on))
       \/ CallSetter("set_OSNR", <<on>>, set_OSNR(on))

CallStateSetter ==
    \E meas_state \in StateVals :
       \/ CallSetter("get_state", <<meas_state>>, get_state(meas_state))
       \/ \E on \in OnVals :
             CallSetter("set_state", <<meas_state, on>>, set_state(meas_state, on))

CallFlaggedSetter ==
    \E on \in OnVals, flag \in FlagVals :
       \/ CallSetter("set_mrkDfun", <<on, flag>>, set_mrkDfun(on, flag))
       \/ CallSetter("set_maxHold", <<on, flag>>, set_maxHold(on, flag))
       \/ CallSetter("set_minHold", <<on, flag>>, set_minHold(on, flag))
       \/ \E scale \in FlagVals :
             CallSetter("set_normY", <<on, flag, scale>>, set_normY(on, flag, scale))
       \/ \E trace \in TraceVals :
             CallSetter("set_trace", <<trace, on, flag>>, set_trace(trace, on, flag))

UnitVals == {PyStr("nm"), PyNone, PyStr("V"), PyInt("5")}
BandVals == {PyStr("CL"), PyStr("C L"), PyStr("O"), PyStr("X")}

CallPaired ==
    \/ \E value \in ValueVals, units \in UnitVals :
          \/ CallSetter("set_wavSmooth", <<value, units>>, set_wavSmooth(value, units))
          \/ CallSetter("set_wavSpan", <<value, units>>, set_wavSpan(value, units))
    \/ \E band \in BandVals, window \in FlagVals :
          CallSetter("set_graphBand", <<band, window>>, set_graphBand(band, window))
    \/ \E window \in FlagVals :
          CallSetter("get_graphBand", <<window>>, get_graphBand(window))
    \/ CallSetter("get_wavSmooth", <<>>, get_wavSmooth)
    \/ CallSetter("get_wavSpan", <<>>, get_wavSpan)
    \/ CallSetter("get_OSNR", <<>>, get_OSNR)

CallRedefined ==
    \/ \E value \in ValueVals, units \in UnitVals :
          CallSetter("set_TPowLow", <<value, units>>, set_TPowLow(value, units))
    \/ \E flag \in FlagVals :
          \/ CallSetter("get_trace", <<flag>>, get_trace(flag))
          \/ CallSetter("get_maxHold", <<flag>>, get_maxHold(flag))
    \/ CallSetter("get_mrkState", <<>>, get_mrkState)

CallSetFormat ==
    \E format \in FormatVals, length \in LengthVals, flag \in FlagVals :
       CallSetter("set_format", <<format, length, flag>>, set_format(format, length, flag))

CallSetBottomY ==
    \E value \in ValueVals, magnitude \in MagnitudeVals, window \in FlagVals, scale \in FlagVals :
       CallSetter("set_bottomY", <<value, magnitude, window, scale>>,
                  set_bottomY(value, magnitude, window, scale))

\* SpecFacade: one call of a setter or getter on a connected object
InitFacade ==
    /\ InitCommon
    /\ NoScript
    /\ calls = MaxCalls - 1
    /\ inbox = <<>>
    /\ op = "idle"
    /\ todo = <<>>

NextFacade ==
    \/ CallOnOffSetter \/ CallStateSetter \/ CallFlaggedSetter
    \/ CallSetFormat \/ CallSetBottomY
    \/ CallPaired \/ CallRedefined
    \/ PrintDiag \/ RaiseStep
    \/ Write \/ ReadEnter \/ ReadLan \/ ReadGpib
    \/ Return

SpecFacade == InitFacade /\ [][NextFacade]_vars

----------------------------------------------------------------------------
(* The acquisition scripts BOSAtest.py and BOSAtestMod.py.  A statement of   *)
(* a script is one step.  The driver call a statement makes runs to its end *)
(* within the step: it returns, or it raises and the script ends there.     *)

MaxPolls == 2      \* calls of checkf followed within one call of checkvar
MaxCount == 2      \* largest point count the instrument reports

\* pc of a script ended by an exception
Raised == 0

\* the driver calls of the scripts not modelled above
get_mode == Ask("INST:STAT:MODE ?")

set_inpPol(polv) ==
    IF Upper(StrOf(polv)) \in {"1+2", "1", "2", "1&2", "PDL", "MAX", "MIN", "SIMUL", "INDEP"}
    THEN Ask("INP:POL " \o Upper(StrOf(polv)))
    ELSE [Done EXCEPT !.diag = 1]

autoscaleY(window, scale, once) ==
    LET wind == Flag(window, ":WIND", "")
        scal == Flag(scale, ":SCAL", "")
    IN  IF wind = Unbound THEN Report(window, Done)
        ELSE IF scal = Unbound THEN Report(scale, Done)
        ELSE IF PyEq(once, PyTrue) THEN Ask("DISP" \o wind \o ":TRAC:Y" \o scal \o ":AUTO ONCE")
        ELSE IF PyEq(once, PyFalse) THEN Ask("DISP" \o wind \o ":TRAC:Y" \o scal \o ":AUTO")
        ELSE Report(once, Done)

get_trcount(dataFlag) ==
    LET dat == Flag(dataFlag, ":DATA", "") IN
    IF dat = Unbound THEN Report(dataFlag, Done) ELSE Ask("TRAC" \o dat \o ":COUNT?")

get_unitsX(window) ==
    LET wind == Flag(window, ":WIND", "") IN
    IF wind = Unbound THEN Report(window, Done) ELSE Ask("DISP" \o wind \o ":TRAC:X?")

\* set_mode(mode) as a plan: the command of its steps, or the diagnostic
set_mode(mode) ==
    IF Head(SetModeSteps(mode)).k = "write"
    THEN Ask(Head(SetModeSteps(mode)).cmd)
    ELSE [Done EXCEPT !.diag = 1]

\* What ask() returns on the LAN connection the scripts open: read() leaves
\* its loop only when the accumulator holds "\n", and ask() hands the
\* accumulator back as it is, so the text of the instrument's answer comes
\* with its line end.
LanReplies(texts) == {t \o e : t \in texts, e \in {"\r\n", "\n"}}

\* str(n) of an int n >= 0
Digit == <<"0", "1", "2", "3", "4", "5", "6", "7", "8", "9">>
RECURSIVE str(_)
str(n) == IF n < 10 THEN Digit[n + 1] ELSE str(n \div 10) \o Digit[(n % 10) + 1]

\* int(text): the number a text denotes, white space around it ignored;
\* ValueError when it denotes none
ValueError == 0 - 1
int(text) ==
    LET ns == {n \in 0..MaxCount : text \in LanReplies({str(n)})}
    IN  IF ns = {} THEN ValueError ELSE CHOOSE n \in ns : TRUE

ModeReplies == LanReplies({"MAIN", "CA"})
StateReplies == LanReplies({"ON", "OFF"})
CountReplies == LanReplies({str(n) : n \in 1..MaxCount} \cup {"x"})

\* a call that raises instead of answering
Raises == "<raises>"
Outcomes(replies) == replies \cup {Raises}

\* np.linspace(start, stop, num): num values from start to stop, both
\* included, evenly spaced; each value is the fraction num / den
Linspace(start, stop, num) ==
    [i \in 1..num |-> [num |-> start * (num - 1) + (i - 1) * (stop - start),
                       den |-> num - 1]]

\* int(v) of a float v >= 0: the fraction is dropped
Trunc(v) == v.num \div v.den

\* the supply voltages of a half-volt sweep
voltagesHalfVolt == Linspace(0, 5, 11)

voltages == Linspace(0, 15, 16)
pols == <<"1", "2">>
channel == 2
rootfile == "C:/BOSA/data/MXLN10/"
pol == IF pidx = 0 THEN "" ELSE pols[pidx]
v == voltages[vidx]

\* the lines of the statements the two scripts share
Lines ==
    [BOSAtest |->
        [get_mode0 |-> 51, set_mode |-> 53, checkvar_mode |-> 55, set_state |-> 64,
         checkvar_run |-> 66, laser |-> 82, measure |-> 91, get_trcount |-> 97,
         set_real |-> 99, ask_trace |-> 102, after_trace |-> 112,
         save_csv |-> 124, save_fig |-> 125, end |-> 127],
     BOSAtestMod |->
        [get_mode0 |-> 52, set_mode |-> 54, checkvar_mode |-> 56, set_state |-> 65,
         checkvar_run |-> 67, laser |-> 83, measure |-> 87, get_trcount |-> 108,
         set_real |-> 110, ask_trace |-> 113, after_trace |-> 121,
         save_csv |-> 130, save_fig |-> 131, end |-> 137]]
L == Lines[script]

\* the statements that make one driver call and drop what it returns:
\* the line, the call and the line that follows
Plain ==
    IF script = "BOSAtest"
    THEN {[at |-> 53, plan |-> set_mode("CA"), to |-> 55],
          [at |-> 64, plan |-> set_state(PyStr("RUN"), PyInt("1")), to |-> 66],
          [at |-> 91, plan |-> set_format(PyStr("ASCII"), PyInt("-1"), PyFalse), to |-> 92],
          [at |-> 92, plan |-> get_mode, to |-> 93],
          [at |-> 93, plan |-> set_wavSpan(PyStr("40"), PyStr("nm")), to |-> 94],
          [at |-> 94, plan |-> set_normY(PyInt("0"), PyFalse, PyFalse), to |-> 95],
          [at |-> 95, plan |-> autoscaleY(PyFalse, PyFalse, PyFalse), to |-> 97],
          [at |-> 99, plan |-> set_format(PyStr("REAL"), PyInt("-1"), PyFalse), to |-> 102],
          [at |-> 115, plan |-> set_format(PyStr("ASCII"), PyInt("-1"), PyFalse), to |-> 118],
          [at |-> 118, plan |-> get_unitsX(PyFalse), to |-> 124]}
    ELSE {[at |-> 54, plan |-> set_mode("CA"), to |-> 56],
          [at |-> 65, plan |-> set_state(PyStr("RUN"), PyInt("1")), to |-> 67],
          [at |-> 87, plan |-> set_inpPol(PyStr("SIMUL")), to |-> 88],
          [at |-> 88, plan |-> set_wavSpan(PyStr("40"), PyStr("nm")), to |-> 94],
          [at |-> 95, plan |-> set_inpPol(PyStr(pol)), to |-> 96],
          [at |-> 103, plan |-> set_format(PyStr("ASCII"), PyInt("-1"), PyFalse), to |-> 104],
          [at |-> 104, plan |-> get_mode, to |-> 105],
          [at |-> 105, plan |-> set_normY(PyInt("0"), PyFalse, PyFalse), to |-> 106],
          [at |-> 106, plan |-> autoscaleY(PyFalse, PyFalse, PyFalse), to |-> 108],
          [at |-> 110, plan |-> set_format(PyStr("REAL"), PyInt("-1"), PyFalse), to |-> 113],
          [at |-> 123, plan |-> set_format(PyStr("ASCII"), PyInt("-1"), PyFalse), to |-> 130]}

\* entries of sent: a text command asked of the instrument, a binary trace
\* asked of it (its point count is kept in requested), a voltage of n / d
\* volt set on the supply, a sleep of n seconds, a file written; each with
\* the loop position it happened at
Ev(kind, command, n, d) ==
    [k |-> kind, cmd |-> command, n |-> n, d |-> d, pol |-> pol, vi |-> vidx]
Asked(command) == Ev("ask", command, 0, 1)
Slept(seconds) == Ev("sleep", "", seconds, 1)

Running == script # "none" /\ pc # Raised /\ pc # L.end

checkvarVars == <<frame, checkv, polls>>
countVars == <<trcount, points, requested>>
loopVars == <<pidx, vidx>>

\* <driver call>, its value dropped
Statement ==
    /\ Running
    /\ \E st \in Plain :
         /\ pc = st.at
         /\ IF st.plan.end = "ask"
            THEN /\ sent' = Append(sent, Asked(st.plan.cmd))
                 /\ pc' \in {st.to, Raised}
            ELSE /\ pc' = IF st.plan.end = "raise" THEN Raised ELSE st.to
                 /\ UNCHANGED sent
    /\ UNCHANGED <<driverVars, script, laser_flag, firstMode, checkvarVars, countVars,
                   svfile, loopVars>>

\* if BOSA400c.get_mode()=="MAIN": laser_flag = True
FirstMode ==
    /\ Running /\ pc = L.get_mode0
    /\ sent' = Append(sent, Asked(get_mode.cmd))
    /\ \E reply \in Outcomes(ModeReplies) :
         IF reply = Raises
         THEN pc' = Raised /\ UNCHANGED <<firstMode, laser_flag>>
         ELSE /\ pc' = L.set_mode
              /\ firstMode' = reply
              /\ laser_flag' = IF reply = "MAIN" THEN TRUE ELSE laser_flag
    /\ UNCHANGED <<driverVars, script, checkvarVars, countVars, svfile, loopVars>>

\* the two calls of checkvar: msg, slptime, the query checkf(*args) makes
\* and the line after the call
Checkvars ==
    {[at |-> L.checkvar_mode,
      fr |-> [msg |-> "CA", slptime |-> 5, cmd |-> get_mode.cmd, to |-> L.set_state]],
     [at |-> L.checkvar_run,
      fr |-> [msg |-> "ON", slptime |-> 20, cmd |-> get_state(PyStr("RUN")).cmd,
              to |-> L.laser]]}

\* what checkf(*args) may return
CheckReplies(command) == IF command = get_mode.cmd THEN ModeReplies ELSE StateReplies

\* checkv != str(msg + "\r\n") is false
MatchesBare(value, msg) == value = msg
Matches(value, msg) == value = msg \o "\r\n"

\* checkvar line 18: checkv = checkf(*args)
CheckvarCall ==
    /\ Running
    /\ \E c \in Checkvars :
         /\ pc = c.at
         /\ frame' = c.fr
         /\ sent' = Append(sent, Asked(c.fr.cmd))
         /\ \E reply \in Outcomes(CheckReplies(c.fr.cmd)) :
              IF reply = Raises
              THEN pc' = Raised /\ UNCHANGED <<checkv, polls>>
              ELSE pc' = 20 /\ checkv' = reply /\ polls' = 1
    /\ UNCHANGED <<driverVars, script, laser_flag, firstMode, countVars, svfile, loopVars>>

\* checkvar line 20: while(checkv != str(msg + "\r\n")), and the return
\* when the loop is left
CheckvarTest ==
    /\ Running /\ pc = 20
    /\ pc' = IF Matches(checkv, frame.msg) THEN frame.to ELSE 21
    /\ UNCHANGED <<driverVars, script, laser_flag, firstMode, checkvarVars, countVars,
                   svfile, loopVars, sent>>

\* checkvar lines 21-23: print(checkv); checkv = checkf(*args);
\* time.sleep(slptime)
CheckvarPoll ==
    /\ Running /\ pc = 21
    /\ polls < MaxPolls
    /\ \E reply \in Outcomes(CheckReplies(frame.cmd)) :
         IF reply = Raises
         THEN /\ pc' = Raised
              /\ sent' = Append(sent, Asked(frame.cmd))
              /\ UNCHANGED <<checkv, polls>>
         ELSE /\ pc' = 20
              /\ checkv' = reply
              /\ polls' = polls + 1
              /\ sent' = sent \o <<Asked(frame.cmd), Slept(frame.slptime)>>
    /\ UNCHANGED <<driverVars, script, laser_flag, firstMode, frame, countVars, svfile,
                   loopVars>>

\* if laser_flag==True: time.sleep(60); laser_flag = False
LaserWait ==
    /\ Running /\ pc = L.laser
    /\ pc' = L.measure
    /\ IF laser_flag = TRUE
       THEN sent' = Append(sent, Slept(60)) /\ laser_flag' = FALSE
       ELSE UNCHANGED <<sent, laser_flag>>
    /\ UNCHANGED <<driverVars, script, firstMode, checkvarVars, countVars, svfile, loopVars>>

\* NumPoints=int(BOSA400c.get_trcount())
GetTrcount ==
    /\ Running /\ pc = L.get_trcount
    /\ sent' = Append(sent, Asked(get_trcount(PyFalse).cmd))
    /\ \E reply \in Outcomes(CountReplies) :
         IF reply = Raises
         THEN pc' = Raised /\ UNCHANGED <<trcount, points>>
         ELSE /\ trcount' = reply
              /\ IF int(reply) = ValueError
                 THEN pc' = Raised /\ UNCHANGED points
                 ELSE pc' = L.set_real /\ points' = int(reply)
    /\ UNCHANGED <<driverVars, script, laser_flag, firstMode, checkvarVars, requested,
                   svfile, loopVars>>

\* Trace = BOSA400c.ask_TRACE_REAL('LAN',NumPoints), and the unpacking of
\* Trace that follows
AskTrace ==
    /\ Running /\ pc = L.ask_trace
    /\ sent' = Append(sent, Ev("ask_TRACE_REAL", AskTraceRealSteps(points)[1].cmd, 0, 1))
    /\ requested' = points
    /\ pc' \in {L.after_trace, Raised}
    /\ UNCHANGED <<driverVars, script, laser_flag, firstMode, checkvarVars, trcount, points,
                   svfile, loopVars>>

\* BOSAtest.py: svfile = input("Input file to save: ");
\* svfile = str(rootfile + svfile), rootfile being "C:/BOSA/data/" there
InputNames == {"a", "b"}
Input ==
    /\ Running /\ script = "BOSAtest" /\ pc = 112
    /\ \E name \in InputNames : svfile' = "C:/BOSA/data/" \o name
    /\ pc' = 115
    /\ UNCHANGED <<driverVars, script, laser_flag, firstMode, checkvarVars, countVars,
                   loopVars, sent>>

\* BOSAtestMod.py: for pol in ("1", "2"):
ForPol ==
    /\ Running /\ script = "BOSAtestMod" /\ pc = 94
    /\ IF pidx < Len(pols)
       THEN pidx' = pidx + 1 /\ pc' = 95
       ELSE pidx' = pidx /\ pc' = L.end
    /\ UNCHANGED <<driverVars, script, laser_flag, firstMode, checkvarVars, countVars,
                   svfile, vidx, sent>>

\* BOSAtestMod.py: for v in voltages:
ForV ==
    /\ Running /\ script = "BOSAtestMod" /\ pc = 96
    /\ IF vidx < Len(voltages)
       THEN vidx' = vidx + 1 /\ pc' = 98
       ELSE vidx' = 0 /\ pc' = 94
    /\ UNCHANGED <<driverVars, script, laser_flag, firstMode, checkvarVars, countVars,
                   svfile, pidx, sent>>

\* BOSAtestMod.py: v_source.set_voltage(channel = channel, value = v);
\* time.sleep(3); time.sleep(2)
SetVoltage ==
    /\ Running /\ script = "BOSAtestMod" /\ pc = 98
    /\ \E ok \in BOOLEAN :
         IF ok
         THEN /\ sent' = sent \o <<Ev("set_voltage", str(channel), v.num, v.den),
                                   Slept(3), Slept(2)>>
              /\ pc' = 103
         ELSE /\ sent' = Append(sent, Ev("set_voltage", str(channel), v.num, v.den))
              /\ pc' = Raised
    /\ UNCHANGED <<driverVars, script, laser_flag, firstMode, checkvarVars, countVars,
                   svfile, loopVars>>

\* BOSAtestMod.py: svfile = str(rootfile + "BOSAtestMXLN10_" + str(int(v)) +
\* "Vpol" + pol)
Svfile ==
    /\ Running /\ script = "BOSAtestMod" /\ pc = 121
    /\ svfile' = rootfile \o "BOSAtestMXLN10_" \o str(Trunc(v)) \o "Vpol" \o pol
    /\ pc' = 123
    /\ UNCHANGED <<driverVars, script, laser_flag, firstMode, checkvarVars, countVars,
                   loopVars, sent>>

\* df.to_csv(svfile + ".csv", ...), then plt.savefig(svfile) in BOSAtest.py,
\* plt.savefig(svfile + ".png") in BOSAtestMod.py, where the loop goes on
Save ==
    /\ Running /\ pc \in {L.save_csv, L.save_fig}
    /\ \E ok \in BOOLEAN :
         LET path == IF pc = L.save_csv THEN svfile \o ".csv"
                     ELSE IF script = "BOSAtest" THEN svfile ELSE svfile \o ".png"
         IN  /\ sent' = IF ok THEN Append(sent, Ev("save", path, 0, 1)) ELSE sent
             /\ pc' = IF ~ok THEN Raised
                      ELSE IF pc = L.save_csv THEN L.save_fig
                      ELSE IF script = "BOSAtest" THEN L.end ELSE 96
    /\ UNCHANGED <<driverVars, script, laser_flag, firstMode, checkvarVars, countVars,
                   svfile, loopVars>>

\* the script begins after BOSA400c = BOSA23095("LAN", IP) has returned
InitScript ==
    /\ InitCommon
    /\ interfaceType = "LAN"
    /\ calls = 1
    /\ inbox = <<>>
    /\ op = "idle"
    /\ todo = <<>>
    /\ script \in {"BOSAtest", "BOSAtestMod"}
    /\ pc = L.get_mode0
    /\ laser_flag = FALSE
    /\ firstMode = ""
    /\ frame = NoFrame
    /\ checkv = ""
    /\ polls = 0
    /\ trcount = ""
    /\ points = 0
    /\ requested = 0
    /\ svfile = ""
    /\ pidx = 0
    /\ vidx = 0
    /\ sent = <<>>

NextScript ==
    \/ FirstMode \/ Statement
    \/ CheckvarCall \/ CheckvarTest \/ CheckvarPoll
    \/ LaserWait
    \/ GetTrcount \/ AskTrace
    \/ Input \/ Save
    \/ ForPol \/ ForV \/ SetVoltage \/ Svfile

SpecScript == InitScript /\ [][NextScript]_vars

\* the interpreter runs the next statement of a script that has one
SpecScriptFair == SpecScript /\ WF_vars(NextScript)

----------------------------------------------------------------------------
(* Properties of read() and read_TRACE_REAL, checked under SpecIO *)

Contains(m, ch) == \E i \in 1..Len(m) : m[i] = ch
CallName == IF op # "idle" THEN op ELSE ret.of
Returned(name) == op = "idle" /\ ret.status = "returned" /\ ret.of = name


\* C2: on a LAN connection read() returns the whole accumulator: the decoded
\* concatenation of every chunk received during the call, taken in order from
\* the front of the stream with nothing lost or trimmed; the accumulator holds
\* a newline, and did not before the last chunk arrived.
C2_ReadReturnsWholeAccumulator ==
    (Kind = "lan" /\ Returned("read")) =>
        /\ consumed = Take(stream0, NBytes(consumed))
        /\ inbox = Drop(stream0, NBytes(consumed))
        /\ ret.value = Decode(consumed, TRUE).text
        /\ Contains(ret.value, "\n")
        /\ ~Contains(Decode(Take(consumed, NBytes(consumed) - NBytes(data)), TRUE).text, "\n")

\* a read that took more than one chunk and returned text after the newline
C2_Witness ==
    /\ Kind = "lan" /\ Returned("read")
    /\ NBytes(consumed) > NBytes(data)
    /\ Contains(ret.value, "\n")
    /\ ret.value[Len(ret.value)] # "\n"

\* what read() returns when the whole stream arrives as one fragment
SingleFragment(stream) == Decode(stream, TRUE).text

AllAscii(stream) == \A i \in 1..Len(stream) : stream[i].c \in Ascii
SingleFinalNewline(stream) ==
    /\ stream # <<>>
    /\ stream[Len(stream)].c = "\n"
    /\ \A i \in 1..(Len(stream) - 1) : stream[i].c # "\n"

\* C3 as stated: for every stream and every fragmentation a LAN read()
\* returns what it returns when the stream arrives in one fragment.
C3_Original ==
    (Kind = "lan" /\ Returned("read")) => ret.value = SingleFragment(stream0)

\* C3 amended: for a stream whose only newline is its last byte, every
\* fragmented LAN read() that returns, returns the single-fragment text; and
\* when the stream is ASCII the read does return unless the channel faults.
C3_FragmentationIndependent ==
    (Kind = "lan" /\ CallName = "read" /\ op = "idle" /\ SingleFinalNewline(stream0)) =>
        /\ ret.status = "returned" => ret.value = SingleFragment(stream0)
        /\ (AllAscii(stream0) /\ ret.why # "io") => ret.status = "returned"

\* a three-byte line whose last fragment was the single newline byte
C3_Witness ==
    /\ Kind = "lan" /\ Returned("read")
    /\ SingleFinalNewline(stream0) /\ AllAscii(stream0)
    /\ Len(stream0) = 3
    /\ NBytes(data) = 1
    /\ ret.value = <<"a", "\r", "\n">>

\* C4: on a LAN connection read_TRACE_REAL takes exactly NumPoints*16 bytes:
\* the counter never goes below 0, counter plus buffer is always the total,
\* the buffer is the front of the stream in order, the loop goes on only
\* while the counter is above 0 and is left only at 0.
C4_ExactByteCount ==
    (Kind = "lan" /\ CallName = "read_TRACE_REAL") =>
        /\ HeadIs({"trace.loop", "trace.decode", "return"}) =>
              /\ msgLength >= 0
              /\ NBytes(response_byte_array) + msgLength = NumPoints * 16
              /\ response_byte_array = Take(stream0, NBytes(response_byte_array))
              /\ consumed = response_byte_array
              /\ inbox = Drop(stream0, NBytes(response_byte_array))
        /\ (HeadIs({"trace.loop"}) /\ lastGot # -2) => msgLength > 0
        /\ HeadIs({"trace.decode", "return"}) => msgLength = 0
        /\ Returned("read_TRACE_REAL") =>
              /\ NBytes(consumed) = NumPoints * 16
              /\ response_byte_array = Take(stream0, NumPoints * 16)
              /\ inbox = Drop(stream0, NumPoints * 16)

\* five points read from a stream that holds more than 80 bytes
C4_Witness ==
    /\ Kind = "lan" /\ Returned("read_TRACE_REAL")
    /\ NumPoints = 5
    /\ NBytes(stream0) = 88
    /\ NBytes(inbox) = 8

\* an underlying receive call of read_TRACE_REAL has been made
TraceReceived ==
    /\ CallName = "read_TRACE_REAL"
    /\ lastGot # -2
    /\ (op = "idle" \/ HeadIs({"trace.loop", "trace.decode", "return"}))

C6_ClosedChannelRaises ==
    ( /\ Kind = "lan"
      /\ instrument = "eof"
      /\ lastGot = 0
      /\ \/ CallName = "read" /\ ~Contains(message, "\n")
         \/ CallName = "read_TRACE_REAL" /\ NBytes(response_byte_array) < NumPoints * 16 )
    => (op = "idle" /\ ret.status = "raised")

\* the cell struct.unpack gives for payload bytes i..j-1
Double(i, j) == [tuple |-> TRUE, f64 |-> <<BinRun(i, j)>>]

\* C7: when the buffer received is exactly the NumPoints*16 bytes of the
\* payload, read_TRACE_REAL returns NumPoints entries, entry i holding the
\* double of bytes [16i, 16i+8) as x and of bytes [16i+8, 16i+16) as y.
C7_DecodesPairsInOrder ==
    (Returned("read_TRACE_REAL") /\ response_byte_array = Payload(NumPoints * 16)) =>
        /\ Len(ret.value) = NumPoints
        /\ \A i \in 0..(NumPoints - 1) :
              ret.value[i + 1] = <<Double(16 * i, 16 * i + 8),
                                   Double(16 * i + 8, 16 * i + 16)>>

\* 1201 points (19216 bytes) decoded
C7_Witness ==
    /\ Returned("read_TRACE_REAL")
    /\ NumPoints = 1201
    /\ response_byte_array = Payload(NumPoints * 16)
    /\ Len(ret.value) = 1201

\* C8: a trace that read_TRACE_REAL returns has NumPoints entries, every
\* cell a decoded double of 8 bytes and none a placeholder, and at least
\* NumPoints*16 bytes were in the buffer; with fewer the call ended raised.
C8_NoPartialTrace ==
    (op = "idle" /\ ret.of = "read_TRACE_REAL") =>
        /\ ret.status = "returned" =>
              /\ NBytes(response_byte_array) >= NumPoints * 16
              /\ Len(ret.value) = NumPoints
              /\ \A i \in 1..NumPoints : \A j \in 1..2 :
                    ret.value[i][j].tuple /\ NBytes(ret.value[i][j].f64) = 8
        /\ NBytes(response_byte_array) < NumPoints * 16 => ret.status = "raised"

\* a GPIB transfer that came back short and ended in struct.error
C8_Witness ==
    /\ Kind = "gpib"
    /\ op = "idle" /\ ret.of = "read_TRACE_REAL"
    /\ ret.status = "raised" /\ ret.why = "struct"
    /\ NumPoints = 5
    /\ NBytes(response_byte_array) = 79

----------------------------------------------------------------------------
(* Properties of the facade's protocol, checked under Spec *)

\* the writes and reads of the connection seen from the call in progress:
\* the last one of the earlier calls, then those of this call
Events ==
    (IF lastEv = "" THEN <<>> ELSE <<lastEv>>) \o [i \in 1..Len(log) |-> log[i].ev]

\* C1: on one connection writes and reads alternate, beginning with a write:
\* never two writes without a read between them, never a second read for one
\* write, and no write left unread when a call has ended.
C1_OneReadPerWrite ==
    /\ \A i \in 1..(Len(Events) - 1) : Events[i] # Events[i + 1]
    /\ (lastEv = "" /\ log # <<>>) => log[1].ev = "write"
    /\ (op = "idle" /\ Events # <<>>) => Events[Len(Events)] = "read"

\* C9: on either transport what write(command) hands to the channel is the
\* command followed by \r\n.
C9_WriteAppendsTerminator ==
    \A i \in 1..Len(log) :
        log[i].ev = "write" => log[i].data = log[i].cmd \o "\r\n"

\* C10: an ask(command) that returns has made one write, of command, then one
\* read, and returns what that read returned: on LAN a reply line comes back
\* with its \r\n.
C10_AskWritesThenReads ==
    Returned("ask") =>
        /\ Len(log) = 2
        /\ log[1].ev = "write" /\ log[1].cmd = arg
        /\ log[2].ev = "read"
        /\ ret.value = message
        /\ (Kind = "lan" /\ stream0 = Line) => ret.value = <<"a", "\r", "\n">>

\* an ask on LAN answered by the line a\r\n
C10_Witness ==
    /\ Returned("ask")
    /\ Kind = "lan"
    /\ arg = "*OPC?"
    /\ stream0 = Line
    /\ ret.value = <<"a", "\r", "\n">>

----------------------------------------------------------------------------
(* Properties of the setters and getters, checked under SpecFacade *)

\* C11: a setter or getter call that has found an argument outside the
\* accepted enumeration (it has emitted its diagnostic, or it is set_bottomY
\* given the unit "V") writes nothing to the channel and reads nothing.
C11_InvalidInputSendsNothing ==
    /\ diag > 0 => log = <<>>
    /\ (CallName = "set_bottomY" /\ args[2] = PyStr("V")) => log = <<>>

\* the exceptions raised when the argument examined is not of the type the
\* validation expects: while the diagnostic is put together, by .upper() of
\* the argument, or by a name the rejecting branch left unbound
ValidationErrors ==
    {"TypeError:diagnostic", "UnboundLocalError:diagnostic",
     "UnboundLocalError:command", "AttributeError:argument"}

\* C12: a setter or getter call given an argument outside the accepted
\* enumeration, of whatever type, never ends raised: the validation itself
\* raises nothing.
C12_InvalidInputReturnsNormally ==
    (op = "idle" /\ ret.status = "raised") => ret.why \notin ValidationErrors

\* the setters of C20 and where each takes its boolean-like input
BoolSetters ==
    {"set_state", "set_normY", "set_wavSingle", "set_wavSweepCal", "set_avgState",
     "set_avgCorr", "set_laser", "set_sweep", "set_inpMueller", "set_mrkState",
     "set_mrkDfun", "set_maxHold", "set_minHold", "set_TPow", "set_OSNR", "set_trace"}
OnAt(name) == IF name \in {"set_state", "set_trace"} THEN 2 ELSE 1

\* the other arguments of the call are ones the setter accepts
OthersAccepted ==
    \A i \in 1..Len(args) :
        i # OnAt(ret.of) =>
            args[i] \in {PyTrue, PyFalse, PyStr("RUN"), PyStr("run"), PyStr("A"), PyStr("m1")}

\* C20: each boolean-like setter, given 1, 0, "ON" or "OFF" (its other
\* arguments valid), sends a command, unless the channel faults.
C20_BooleanSettersAcceptFourInputs ==
    ( /\ op = "idle" /\ ret.of \in BoolSetters
      /\ args[OnAt(ret.of)] \in {PyInt("1"), PyInt("0"), PyStr("ON"), PyStr("OFF")}
      /\ OthersAccepted
      /\ ret.why # "io" )
    => \E i \in 1..Len(log) : log[i].ev = "write"

----------------------------------------------------------------------------
(* Properties of construction, teardown and faults, checked under Spec *)

\* C13: __del__ never ends raised.
C13_DelNeverRaises ==
    ~(op = "idle" /\ ret.of = "__del__" /\ ret.status = "raised")

\* connection attempts made for the object: each begins by creating the
\* socket or opening the resource
Attempts == Cardinality({i \in 1..Len(conn) : conn[i].call \in {"socket", "open_resource"}})
Refused == conn # <<>> /\ ~conn[Len(conn)].ok

\* C14: a constructor given an interface type that is neither LAN nor GPIB
\* in any case raises with no connection attempt; one whose connection
\* attempt fails raises after that one attempt; in both cases no command has
\* been sent, and no command is ever sent on a handle that is not connected.
C14_FailedConstructionRaisesOnce ==
    CallName = "__init__" =>
        /\ Attempts <= 1
        /\ Lower(interfaceType) \notin {"lan", "gpib"} =>
              /\ conn = <<>> /\ log = <<>>
              /\ op = "idle" => (ret.status = "raised" /\ ret.why = "interface")
        /\ Refused =>
              /\ op = "idle" /\ ret.status = "raised" /\ ret.why = "connect"
              /\ Attempts = 1 /\ log = <<>> /\ obj # "ready"
        /\ log # <<>> => (conn # <<>> /\ conn[Len(conn)].ok)

\* a LAN constructor asked for *IDN? and *RST whose connect was refused
C14_Witness ==
    /\ op = "idle" /\ ret.of = "__init__" /\ ret.status = "raised" /\ ret.why = "connect"
    /\ interfaceType = "lan"
    /\ arg = CtorArgs(NoPort, TRUE, TRUE)
    /\ Len(conn) = 3 /\ ~conn[3].ok
    /\ log = <<>>

\* C15: an exception of the channel ends the call at once, raised with that
\* exception: no call has a second fault, none goes on after a fault, the
\* object never connects a second time, and an ask whose write failed has
\* made no read.
C15_FaultRaisedOnce ==
    /\ Len(faults) <= 1
    /\ faults # <<>> => (op = "idle" /\ ret.status = "raised" /\ ret.why = faults[1])
    /\ lastGot = -1 => (op = "idle" /\ ret.status = "raised" /\ ret.why = "io")
    /\ Attempts <= 1
    /\ (CallName = "ask" /\ faults # <<>> /\ \A i \in 1..Len(log) : log[i].ev # "write")
          => log = <<>>

\* an ask whose write failed
C15_Witness ==
    /\ op = "idle" /\ ret.of = "ask" /\ ret.status = "raised" /\ ret.why = "io"
    /\ faults = <<"io">>
    /\ log = <<>>
    /\ lastGot = -2

\* C16: ask_TRACE_ASCII does not fail because of the transport kind: it never
\* ends raised for want of read_ascii_values on the handle.
C16_TraceAsciiOnEitherTransport ==
    ~(op = "idle" /\ ret.of = "ask_TRACE_ASCII" /\ ret.status = "raised"
      /\ ret.why = "attribute")

\* the writes and reads of the call, as text
Cmds == [i \in 1..Len(log) |-> IF log[i].ev = "write" THEN log[i].cmd ELSE "read"]
IsPrefix(a, b) == Len(a) <= Len(b) /\ a = SubSeq(b, 1, Len(a))
Expected(IDN, Reset) ==
    (IF IDN THEN <<"*IDN?", "read">> ELSE <<>>) \o (IF Reset THEN <<"*RST">> ELSE <<>>)

\* C19: a LAN constructor creates the socket, sets the timeout to 30, connects
\* to the port given (10000 when none is given), then writes *IDN? and reads
\* if IDN is asked, then writes *RST if Reset is asked; nothing is written
\* before the connect has succeeded.
C19_NetworkConstructionOrder ==
    (Kind = "lan" /\ CallName = "__init__") =>
        \A port \in {NoPort, OtherPort}, IDN \in BOOLEAN, Reset \in BOOLEAN :
            arg = CtorArgs(port, IDN, Reset) =>
                /\ Len(conn) \in {0, 1, 3}
                /\ Len(conn) = 1 => conn[1] = HandleCall("socket", 0, FALSE)
                /\ Len(conn) = 3 =>
                      /\ conn[1] = HandleCall("socket", 0, TRUE)
                      /\ conn[2] = HandleCall("settimeout", 30, TRUE)
                      /\ conn[3].call = "connect"
                      /\ conn[3].n = IF port = NoPort THEN 10000 ELSE port
                /\ log # <<>> => (Len(conn) = 3 /\ conn[3].ok)
                /\ IsPrefix(Cmds, Expected(IDN, Reset))
                /\ Returned("__init__") => Cmds = Expected(IDN, Reset)

\* a LAN constructor with the default port, IDN and Reset that returned
C19_Witness ==
    /\ Kind = "lan" /\ Returned("__init__")
    /\ arg = CtorArgs(NoPort, TRUE, TRUE)
    /\ conn[3] = HandleCall("connect", 10000, TRUE)
    /\ Cmds = <<"*IDN?", "read", "*RST">>

\* C18: every read begins with an empty buffer; what a read has accumulated,
\* and what the call returns, is the text of the bytes taken from the channel
\* during that read; the object's own fields hold no bytes.
C18_NoReadStateAcrossCalls ==
    /\ (HeadIs({"read.loop"}) /\ lastGot = -2) => (message = <<>> /\ consumed = <<>>)
    /\ (HeadIs({"trace.loop"}) /\ lastGot = -2) =>
          (response_byte_array = <<>> /\ consumed = <<>> /\ msgLength = NumPoints * 16)
    /\ HeadIs({"read.loop"}) => message = Decode(consumed, TRUE).text
    /\ HeadIs({"trace.loop", "trace.decode"}) => response_byte_array = consumed
    /\ ( /\ op = "idle" /\ ret.status = "returned" /\ log # <<>>
         /\ ret.of \in {"ask", "get_mode", "set_mode", "ask_TRACE_ASCII"} )
          => ret.value = Decode(consumed, TRUE).text
    /\ consumed = Take(stream0, NBytes(consumed))
    /\ obj \in {"none", "ready", "deleted"}
    /\ instrument \in {"none", "socket", "open", "eof", "closed"}

\* a second read on the connection, after the constructor's read of the IDN
\* reply, that returned its own line only
C18_Witness ==
    /\ calls = 2 /\ lastEv = "read" /\ Kind = "lan"
    /\ Returned("ask")
    /\ stream0 = Line
    /\ ret.value = <<"a", "\r", "\n">>

----------------------------------------------------------------------------
(* Property of read() on GPIB, checked under SpecIO *)

\* C17: on a GPIB connection read() stays in its loop only while every
\* payload so far was empty, and returns the first non-empty payload as it
\* is: the text of that one payload, whether or not it holds a newline,
\* with nothing from earlier iterations added.
C17_GpibReadFirstNonEmpty ==
    (Kind = "gpib" /\ CallName = "read") =>
        /\ HeadIs({"read.loop"}) =>
              (lastGot \in {-2, 0} /\ message = <<>> /\ consumed = <<>>)
        /\ Returned("read") =>
              /\ data # <<>>
              /\ consumed = data
              /\ data = Take(stream0, NBytes(data))
              /\ ret.value = Decode(data, TRUE).text
              /\ Len(ret.value) = NBytes(data)

\* a payload of one byte, not a newline, returned from a longer stream
C17_Witness ==
    /\ Kind = "gpib" /\ Returned("read")
    /\ ret.value = <<"a">>
    /\ NBytes(stream0) = 3
    /\ NBytes(inbox) = 2

----------------------------------------------------------------------------
(* Properties of the identification queries and of set_mode, checked under Spec *)

\* C27: on a constructed object get_identificationNumber() and
\* is_operationComplete() send their query and return the reply: such a call
\* ends raised only for a fault of the channel.
C27_IdentificationQueriesWork ==
    ( /\ op = "idle"
      /\ ret.of \in {"get_identificationNumber", "is_operationComplete"}
      /\ ret.why \notin {"io", "decode"} )
    => ( /\ ret.status = "returned"
         /\ log # <<>> /\ log[1].ev = "write" /\ log[1].cmd = arg )

\* C28: set_mode(mode) writes INST:STAT:MODE and the upper-cased mode, reads
\* and returns the reply when the upper-cased mode is MAIN, BOSA, TLS or CA;
\* for another string it writes nothing, reads nothing, prints its message
\* and returns no value.
C28_SetModeValidatesMode ==
    \A mode \in ModeArgs :
        (CallName = "set_mode" /\ arg = "INST:STAT:MODE " \o Upper(mode)) =>
            IF Upper(mode) \in {"MAIN", "BOSA", "TLS", "CA"}
            THEN /\ diag = 0
                 /\ log # <<>> => (log[1].ev = "write" /\ log[1].cmd = arg)
                 /\ Returned("set_mode") =>
                       /\ Len(log) = 2 /\ log[2].ev = "read"
                       /\ ret.value = message /\ ret.value # <<>>
            ELSE /\ log = <<>>
                 /\ op = "idle" =>
                       (ret.status = "returned" /\ ret.value = <<>> /\ diag = 1)

\* set_mode("ca") on LAN that returned the reply to INST:STAT:MODE CA
C28_Witness ==
    /\ Returned("set_mode") /\ Kind = "lan"
    /\ arg = "INST:STAT:MODE CA"
    /\ log[1].cmd = "INST:STAT:MODE CA"
    /\ ret.value = <<"a", "\r", "\n">>

----------------------------------------------------------------------------
(* Properties of the command nodes, checked under SpecFacade *)

\* the query of the getter paired with a setter
GetterQueries(setter) ==
    IF setter = "set_wavSmooth" THEN {get_wavSmooth.cmd}
    ELSE IF setter = "set_wavSpan" THEN {get_wavSpan.cmd}
    ELSE IF setter = "set_OSNR" THEN {get_OSNR.cmd}
    ELSE IF setter = "set_graphBand"
    THEN {get_graphBand(args[2]).cmd}
    ELSE {}

\* the headers and the argument texts a command of these setters may have
Nodes ==
    {"SENS:WAV:SMOOTH", "SENS:WAV:CENT", "SENS:WAV:SPAN", "CALC:OSNR:STAT", "CALC:TPOW",
     "DISP:GRAPHSEL", "DISP:WIND:GRAPHSEL", "DISP:GRAPHICSEL", "DISP:WIND:GRAPHICSEL"}
Tails == {" 3 NM", " 3 ", " C+L", " O", " ON", " OFF", " 1", " 0"}

\* command is header and arguments, query is the same header and "?"
SameNode(command, query) ==
    \E node \in Nodes, tail \in Tails :
        command = node \o tail /\ query \in {node \o "?", node \o " ?"}

\* C25: the command a setter has written has the header of its getter's
\* query: set_wavSmooth that of get_wavSmooth, set_wavSpan that of
\* get_wavSpan, set_graphBand that of get_graphBand, set_OSNR that of get_OSNR.
C25_SetterAddressesGetterNode ==
    ( /\ CallName \in {"set_wavSmooth", "set_wavSpan", "set_graphBand", "set_OSNR"}
      /\ log # <<>> /\ log[1].ev = "write" )
    => \E query \in GetterQueries(CallName) : SameNode(log[1].cmd, query)

\* C26: each name defined twice denotes its first definition: what
\* set_TPowLow(value, units) with accepted units, get_trace(window),
\* get_mrkState() and get_maxHold(state) write is the command of that first
\* definition.
C26_FirstDefinitionWins ==
    /\ (CallName = "get_trace" /\ log # <<>>) =>
          log[1].cmd \in {"DISP:TRAC:STAT?", "DISP:WIND:TRAC:STAT?"}
    /\ (CallName = "get_mrkState" /\ log # <<>>) => log[1].cmd = "CALC:MARK:STAT?"
    /\ (CallName = "get_maxHold" /\ log # <<>>) =>
          log[1].cmd \in {"CALC:MAX ", "CALC:MAX:STAT "}
    /\ ( /\ op = "idle" /\ ret.of = "set_TPowLow"
         /\ args = <<PyStr("3"), PyStr("nm")>> /\ ret.why # "io" )
          => (log # <<>> /\ log[1].cmd = "CALC:TPOW:IRAN:LOW 3 NM")

----------------------------------------------------------------------------
(* Properties of the acquisition scripts, checked under SpecScript *)

Last(S) == CHOOSE i \in S : \A j \in S : j <= i
IsFormat(e) == e.k = "ask" /\ e.cmd \in {"FORM ASCII", "FORM REAL"}
IsTextQuery(e) == e.k = "ask" /\ ~IsFormat(e)
IsTrace(e) == e.k = "ask_TRACE_REAL"

\* the data format in force at entry i of sent: that of the last FORM
\* command before it
FormatAt(i) ==
    LET js == {j \in 1..(i - 1) : IsFormat(sent[j])}
    IN  IF js = {} THEN "" ELSE sent[Last(js)].cmd

\* C21: in both scripts, whenever ask_TRACE_REAL has just been called, a
\* TRAC:COUNT? query was made before it and after every earlier trace
\* request, while the format in force was ASCII; the count given to
\* ask_TRACE_REAL is the integer that query returned; FORM REAL was sent
\* between the count query and TRAC?; and a text query made after a trace
\* request is made with FORM ASCII in force again.
C21_TraceFollowsCountInAscii ==
    (script # "none" /\ sent # <<>>) =>
        LET i == Len(sent)
            e == sent[i]
            counts == {j \in 1..(i - 1) : sent[j].k = "ask" /\ sent[j].cmd = "TRAC:COUNT?"}
            traces == {j \in 1..(i - 1) : IsTrace(sent[j])}
        IN  /\ IsTrace(e) =>
                 /\ e.cmd = "TRAC?"
                 /\ counts # {}
                 /\ \A t \in traces : t < Last(counts)
                 /\ FormatAt(Last(counts)) = "FORM ASCII"
                 /\ \E k \in (Last(counts) + 1)..(i - 1) :
                        sent[k].k = "ask" /\ sent[k].cmd = "FORM REAL"
                 /\ FormatAt(i) = "FORM REAL"
                 /\ requested = int(trcount)
            /\ (IsTextQuery(e) /\ traces # {}) => FormatAt(i) = "FORM ASCII"

C21_Witness ==
    /\ script = "BOSAtest"
    /\ sent # <<>>
    /\ sent[Len(sent)].cmd = "DISP:TRAC:X?"
    /\ \E j \in 1..Len(sent) : IsTrace(sent[j])
    /\ trcount = "2\r\n" /\ requested = 2

InCheckvar == script # "none" /\ pc \in {20, 21}
ExactReply == frame.msg \o "\r\n"

\* C22: checkvar has called checkf at least once whenever it is running;
\* it returns only when the last value checkf returned is exactly msg +
\* "\r\n"; after any other value it goes on to call checkf again, and that
\* is one more call; and once checkf has returned exactly msg + "\r\n",
\* checkvar returns.
C22_CheckvarPollsUntilExactReply ==
    /\ [](InCheckvar => polls >= 1)
    /\ [][(InCheckvar /\ pc' = frame.to) => checkv = ExactReply]_vars
    /\ [][(pc = 20 /\ InCheckvar /\ checkv # ExactReply) => pc' = 21]_vars
    /\ [][(pc = 21 /\ InCheckvar /\ pc' = 20) => polls' = polls + 1]_vars
    /\ (InCheckvar /\ pc = 20 /\ checkv = ExactReply) ~> (pc = frame.to)

C22_Witness ==
    /\ script = "BOSAtest"
    /\ pc = 82
    /\ frame.msg = "ON" /\ checkv = "ON\r\n" /\ polls >= 2

\* C23: when the first get_mode() of a script returned the instrument's
\* answer MAIN, laser_flag is true when the script reaches its test, and a
\* sleep of 60 has been made when the script reaches its first measurement
\* command.
C23_MainStartsLaserWait ==
    (script # "none" /\ firstMode = "MAIN\r\n") =>
        /\ pc = L.laser => laser_flag = TRUE
        /\ pc = L.measure => \E i \in 1..Len(sent) : sent[i].k = "sleep" /\ sent[i].n = 60

TracesOf(p, vi) == {i \in 1..Len(sent) : IsTrace(sent[i]) /\ sent[i].pol = p /\ sent[i].vi = vi}

\* C24: in the sweep script, when a trace has just been requested, the
\* last thing done to the supply was setting its voltage in the same
\* iteration, and no trace was requested in that iteration before; a file
\* just saved has a path that no other iteration saved under; and when
\* the script has ended, every one of the 2 polarizations and 16 voltages
\* has had exactly one trace request.
C24_SweepOneTracePerSetting ==
    script = "BOSAtestMod" =>
        /\ sent # <<>> =>
             LET i == Len(sent)
                 e == sent[i]
                 sets == {j \in 1..(i - 1) : sent[j].k = "set_voltage"}
             IN  /\ IsTrace(e) =>
                      /\ sets # {}
                      /\ sent[Last(sets)].pol = e.pol /\ sent[Last(sets)].vi = e.vi
                      /\ TracesOf(e.pol, e.vi) = {i}
                 /\ e.k = "save" =>
                      \A j \in 1..(i - 1) :
                          (sent[j].k = "save" /\ <<sent[j].pol, sent[j].vi>> # <<e.pol, e.vi>>)
                              => sent[j].cmd # e.cmd
        /\ pc = L.end =>
             \A p \in {"1", "2"}, vi \in 1..16 : Cardinality(TracesOf(p, vi)) = 1

C24_Witness ==
    /\ script = "BOSAtestMod"
    /\ pc = L.end
    /\ sent # <<>>
    /\ sent[Len(sent)].cmd = "C:/BOSA/data/MXLN10/BOSAtestMXLN10_15Vpol2.png"
    /\ Cardinality({i \in 1..Len(sent) : IsTrace(sent[i])}) = 32

====
